---- MODULE Spec2Model ----
(***************************************************************************)
(* Model of the chat backend of FrontendAI-RAG (src/main.py): the          *)
(* in-memory session store, ConversationMemory and the POST /chat and      *)
(* DELETE /sessions/{id} handlers.  Texts are strings, scores and          *)
(* sentiment values are hundredths (0.7 is 70).                            *)
(***************************************************************************)
EXTENDS Integers, Sequences, FiniteSets, TLC

VARIABLES sessions, resp, calls, out, ingest, loop

vars == <<sessions, resp, calls, out, ingest, loop>>

(***************************************************************************)
(* Python string and list primitives used by the handlers.                 *)
(***************************************************************************)
Min(a, b) == IF a < b THEN a ELSE b

\* s[-n:] for n >= 1
LastN(s, n) == IF Len(s) <= n THEN s ELSE SubSeq(s, Len(s) - n + 1, Len(s))

CharAt(s, i) == SubSeq(s, i, i)

UpperChars == "ABCDEFGHIJKLMNOPQRSTUVWXYZ"

LowerChars == "abcdefghijklmnopqrstuvwxyz"

LowerMap ==
    [c \in {CharAt(UpperChars, i) : i \in 1..Len(UpperChars)} |->
        CharAt(LowerChars, CHOOSE i \in 1..Len(UpperChars) : CharAt(UpperChars, i) = c)] @@ << >>

LowerChar(c) == IF c \in DOMAIN LowerMap THEN LowerMap[c] ELSE c

RECURSIVE Lower(_)
\* str.lower()
Lower(s) == IF s = "" THEN "" ELSE LowerChar(CharAt(s, 1)) \o Lower(SubSeq(s, 2, Len(s)))

Whitespace == {" ", "\t", "\n", "\r", "\f"}

RECURSIVE LStrip(_, _)
LStrip(s, chars) ==
    IF s # "" /\ CharAt(s, 1) \in chars THEN LStrip(SubSeq(s, 2, Len(s)), chars) ELSE s

RECURSIVE RStrip(_, _)
\* str.rstrip(chars)
RStrip(s, chars) ==
    IF s # "" /\ CharAt(s, Len(s)) \in chars THEN RStrip(SubSeq(s, 1, Len(s) - 1), chars) ELSE s

\* str.strip()
Strip(s) == RStrip(LStrip(s, Whitespace), Whitespace)

\* s.startswith(p)
StartsWith(s, p) == Len(p) <= Len(s) /\ SubSeq(s, 1, Len(p)) = p

\* sub in s
Contains(s, sub) == \E i \in 1..(Len(s) - Len(sub) + 1) : SubSeq(s, i, i + Len(sub) - 1) = sub

RECURSIVE Join(_, _)
\* sep.join(list)
Join(sep, list) ==
    IF list = <<>> THEN ""
    ELSE IF Len(list) = 1 THEN list[1]
    ELSE list[1] \o sep \o Join(sep, Tail(list))

RECURSIVE WordCount(_)
\* len(s.split())
WordCount(s) ==
    LET t == LStrip(s, Whitespace)
        firstWs == IF \E i \in 1..Len(t) : CharAt(t, i) \in Whitespace
                   THEN CHOOSE i \in 1..Len(t) :
                           /\ CharAt(t, i) \in Whitespace
                           /\ \A j \in 1..(i - 1) : CharAt(t, j) \notin Whitespace
                   ELSE 0
    IN  IF t = "" THEN 0
        ELSE IF firstWs = 0 THEN 1
        ELSE 1 + WordCount(SubSeq(t, firstWs, Len(t)))

RECURSIVE SumPositive(_)
SumPositive(ss) == IF ss = <<>> THEN 0 ELSE Head(ss).positive + SumPositive(Tail(ss))

(***************************************************************************)
(* Greeting handler.                                                       *)
(***************************************************************************)
greetings ==
    {"hi", "hello", "hey", "greetings", "good morning",
     "good afternoon", "good evening", "howdy", "hi there"}

\* is_greeting comparing without lowering the message
is_greeting_CaseSensitive(message) ==
    LET cleaned_message == RStrip(Strip(message), {".", "!", "?"})
    IN  \/ cleaned_message \in greetings
        \/ \E g \in greetings : StartsWith(cleaned_message, g \o " ")

is_greeting(message) ==
    LET cleaned_message == RStrip(Strip(Lower(message)), {".", "!", "?"})
    IN  \/ cleaned_message \in greetings
        \/ \E g \in greetings : StartsWith(cleaned_message, g \o " ")

\* the fixed welcome text, named by its first line
generate_welcome_message == "# Welcome to AnaptIQ"

greeting_templates ==
    {"Hello again! How can I assist with your financial services technology questions today?",
     "Hi there! What financial technology topics would you like to explore?",
     "Good to see you again. I'm ready to discuss your financial services technology needs. What can I help with?",
     "Welcome back! How may I help with your banking technology questions today?"}

\* random.choice over the templates is the caller's input `choice`
generate_greeting_response(is_first_greeting, choice) ==
    IF is_first_greeting THEN generate_welcome_message ELSE choice

(***************************************************************************)
(* ConversationMemory.                                                     *)
(***************************************************************************)
NoneValue == "None"

DefaultSentiment == [positive |-> 33, negative |-> 33, neutral |-> 34]

GreetingSentiment == [positive |-> 80, negative |-> 0, neutral |-> 20]

DefaultIntent == [product_interest |-> 25, contact_request |-> 25]

ConversationMemory ==
    [messages |-> <<>>,
     summary |-> "",
     interaction_count |-> 0,
     sentiment_history |-> <<>>,
     topics_discussed |-> <<>>,
     financial_context |-> [industry_vertical |-> NoneValue, topics_of_interest |-> {},
                            potential_use_cases |-> {}, detected_pain_points |-> {}],
     last_sources |-> <<>>]

\* the list [t for t in topics if t not in self.topics_discussed], evaluated
\* against the list as it was before the extend
NewTopics(known, topics) == SelectSeq(topics, LAMBDA t : \A i \in 1..Len(known) : known[i] # t)

\* summarize_conversation keeping the last ten messages
summarize_conversation_KeepsTen(mem, reply) ==
    IF mem.messages = <<>> THEN mem
    ELSE [mem EXCEPT !.summary = reply, !.messages = LastN(mem.messages, 10)]

\* summarize_conversation keeping the last seven messages
summarize_conversation_KeepsSeven(mem, reply) ==
    IF mem.messages = <<>> THEN mem
    ELSE [mem EXCEPT !.summary = reply, !.messages = LastN(mem.messages, 7)]

\* summarize_conversation with the reply of the completion call
summarize_conversation(mem, reply) ==
    IF mem.messages = <<>> THEN mem
    ELSE [mem EXCEPT !.summary = reply, !.messages = LastN(mem.messages, 8)]

\* the updates of add_exchange without the sentiment entry
append_exchange_NoSentiment(mem, user_msg, assistant_msg, sentiment, topics) ==
    [mem EXCEPT
        !.messages = @ \o <<[role |-> "user", content |-> user_msg],
                            [role |-> "assistant", content |-> assistant_msg]>>,
        !.interaction_count = @ + 1,
        !.topics_discussed = @ \o NewTopics(@, topics)]

\* the memory after the four updates that precede the length test
append_exchange(mem, user_msg, assistant_msg, sentiment, topics) ==
    [mem EXCEPT
        !.messages = @ \o <<[role |-> "user", content |-> user_msg],
                            [role |-> "assistant", content |-> assistant_msg]>>,
        !.interaction_count = @ + 1,
        !.sentiment_history = Append(@, sentiment),
        !.topics_discussed = @ \o NewTopics(@, topics)]

needs_summary(mem) == Len(mem.messages) > 10

\* add_exchange undoing its updates when the summarization call raises
add_exchange_RollsBack(mem, user_msg, assistant_msg, sentiment, topics, summ) ==
    LET m1 == append_exchange(mem, user_msg, assistant_msg, sentiment, topics)
    IN  IF needs_summary(m1)
        THEN IF summ.ok
             THEN [mem |-> summarize_conversation(m1, summ.text), raised |-> FALSE, summarized |-> TRUE]
             ELSE [mem |-> mem, raised |-> TRUE, summarized |-> TRUE]
        ELSE [mem |-> m1, raised |-> FALSE, summarized |-> FALSE]

\* add_exchange; summ = [ok, text] is the outcome of the summarization call.
\* The result is the memory and whether the call raised.
add_exchange(mem, user_msg, assistant_msg, sentiment, topics, summ) ==
    LET m1 == append_exchange(mem, user_msg, assistant_msg, sentiment, topics)
    IN  IF needs_summary(m1)
        THEN IF summ.ok
             THEN [mem |-> summarize_conversation(m1, summ.text), raised |-> FALSE, summarized |-> TRUE]
             ELSE [mem |-> m1, raised |-> TRUE, summarized |-> TRUE]
        ELSE [mem |-> m1, raised |-> FALSE, summarized |-> FALSE]

ContextKeys == {"industry_vertical", "topics_of_interest", "potential_use_cases", "detected_pain_points"}

\* update_financial_context; analysis.ok is false when the completion call
\* raised (the exception is caught and logged inside the method), otherwise
\* analysis.value is the parsed reply
update_financial_context(mem, analysis) ==
    IF mem.interaction_count <= 1 THEN mem
    ELSE IF ~analysis.ok THEN mem
    ELSE [mem EXCEPT !.financial_context =
            [key \in ContextKeys |->
                IF key = "industry_vertical"
                THEN IF analysis.value[key] # NoneValue THEN analysis.value[key] ELSE @[key]
                ELSE @[key] \cup analysis.value[key]]]

high_value_topics ==
    {"core banking", "digital transformation", "compliance", "risk management",
     "Basel", "KYC", "AML", "wealth management", "modernization"}

lead_keywords ==
    {"contact", "email", "call", "talk to", "expert", "consultant", "demo", "meeting",
     "speak with", "pricing", "cost", "quote", "proposal", "help us", "our bank", "our company"}

form_after_exchanges == 10

UserContents(msgs) ==
    LET users == SelectSeq(msgs, LAMBDA m : m.role = "user")
    IN  [i \in 1..Len(users) |-> users[i].content]

high_value_topic_in(topics_discussed) ==
    LET topics_text == Lower(Join(" ", topics_discussed))
    IN  \E topic \in high_value_topics : Contains(topics_text, Lower(topic))

lead_keyword_in(user_contents) ==
    LET recent_text == Lower(Join(" ", user_contents))
    IN  \E keyword \in lead_keywords : Contains(recent_text, keyword)

(***************************************************************************)
(* Retrieval: the vector index as seen by one query is a set of points     *)
(* [id, score, industries, topics], score being the similarity to the      *)
(* query vector.                                                           *)
(***************************************************************************)
financial_terms ==
    <<"Basel", "GDPR", "KYC", "AML", "core banking", "digital transformation",
      "open banking", "PSD2", "stress testing", "FRTB", "capital adequacy",
      "model risk", "risk management", "wealth management", "regulatory compliance",
      "credit risk", "market risk", "operational risk", "BCBS", "liquidity",
      "VAR", "value at risk", "CVA", "XVA", "trading book", "banking book">>

extract_financial_terms(text) ==
    LET text_lower == Lower(text)
    IN  SelectSeq(financial_terms, LAMBDA term : Contains(text_lower, Lower(term)))

industry_map ==
    [term \in {"core banking", "open banking", "wealth management",
               "credit risk", "market risk", "trading book"} |->
        CASE term = "wealth management" -> "wealth_management"
          [] term = "trading book" -> "investment_banking"
          [] OTHER -> "banking"]

topic_map ==
    [term \in {"Basel", "GDPR", "KYC", "AML", "digital transformation",
               "risk management", "regulatory compliance", "model risk"} |->
        CASE term = "digital transformation" -> "digital_transformation"
          [] term \in {"risk management", "model risk"} -> "risk_management"
          [] OTHER -> "regulatory_compliance"]

\* The filter {"must": [{"should": industry conditions}, {"should": topic
\* conditions}]} as the two sets of values to match; both empty is {}.
create_financial_filters(terms) ==
    [industries |-> {industry_map[terms[i]] : i \in {j \in 1..Len(terms) : terms[j] \in DOMAIN industry_map}},
     topics |-> {topic_map[terms[i]] : i \in {j \in 1..Len(terms) : terms[j] \in DOMAIN topic_map}}]

NoFilter == [industries |-> {}, topics |-> {}]

MatchesFilter(p, flt) ==
    /\ flt.industries = {} \/ p.industries \cap flt.industries # {}
    /\ flt.topics = {} \/ p.topics \cap flt.topics # {}

RECURSIVE SortedDesc(_)
\* the points of a set by decreasing score (equal scores by increasing id)
SortedDesc(S) ==
    IF S = {} THEN <<>>
    ELSE LET best == CHOOSE p \in S : \A q \in S :
                        \/ q.score < p.score
                        \/ q.score = p.score /\ q.id >= p.id
         IN  <<best>> \o SortedDesc(S \ {best})

\* qdrant_client.search: the best `limit` points at or above the threshold
qdrant_search(index, flt, limit, score_threshold) ==
    LET hits == SortedDesc({p \in index : p.score >= score_threshold /\ MatchesFilter(p, flt)})
    IN  SubSeq(hits, 1, Min(limit, Len(hits)))

RECURSIVE StableSortDesc(_)
\* list.sort(key=score, reverse=True): stable
StableSortDesc(seq) ==
    IF seq = <<>> THEN <<>>
    ELSE LET rest == StableSortDesc(SubSeq(seq, 1, Len(seq) - 1))
             x == seq[Len(seq)]
             k == Cardinality({i \in 1..Len(rest) : rest[i].score >= x.score})
         IN  SubSeq(rest, 1, k) \o <<x>> \o SubSeq(rest, k + 1, Len(rest))

MaxScore(results) ==
    IF results = <<>> THEN 0
    ELSE CHOOSE m \in {results[i].score : i \in 1..Len(results)} :
            \A i \in 1..Len(results) : results[i].score <= m

search_limit == 7

needs_filtered_search(query, search_results) ==
    /\ extract_financial_terms(query) # <<>>
    /\ (Len(search_results) < 3 \/ MaxScore(search_results) < 75)
    /\ create_financial_filters(extract_financial_terms(query)) # NoFilter

\* merge_results without the seen_ids test
merge_results_KeepsDuplicates(search_results, filtered_results, limit) ==
    LET combined_results == StableSortDesc(search_results \o filtered_results)
    IN  SubSeq(combined_results, 1, Min(limit, Len(combined_results)))

\* merge_results with the new filtered results ahead of the initial ones
merge_results_FilteredFirst(search_results, filtered_results, limit) ==
    LET seen_ids == {search_results[i].id : i \in 1..Len(search_results)}
        fresh == SelectSeq(filtered_results, LAMBDA r : r.id \notin seen_ids)
        combined_results == StableSortDesc(fresh \o search_results)
    IN  SubSeq(combined_results, 1, Min(limit, Len(combined_results)))

merge_results(search_results, filtered_results, limit) ==
    LET seen_ids == {search_results[i].id : i \in 1..Len(search_results)}
        fresh == SelectSeq(filtered_results, LAMBDA r : r.id \notin seen_ids)
        combined_results == StableSortDesc(search_results \o fresh)
    IN  SubSeq(combined_results, 1, Min(limit, Len(combined_results)))

\* enhanced_financial_search once the embedding is there
enhanced_financial_search(query, index, limit) ==
    LET search_results == qdrant_search(index, NoFilter, limit, 70)
    IN  IF needs_filtered_search(query, search_results)
        THEN merge_results(search_results,
                           qdrant_search(index, create_financial_filters(extract_financial_terms(query)), limit, 65),
                           limit)
        ELSE search_results

\* weak_results without the empty case
weak_results_SingleOnly(search_results) ==
    Len(search_results) = 1 /\ search_results[1].score < 70

weak_results(search_results) ==
    \/ search_results = <<>>
    \/ Len(search_results) = 1 /\ search_results[1].score < 70

\* the fixed replies, each named by its first sentence
duplicate_notice == "I noticed you sent the same message twice."

clarification_no_match == "I couldn't find an exact match for your financial services query."

clarification_related == "I found some related financial services content."

generate_clarification_prompt(available_content) ==
    IF available_content = <<>> THEN clarification_no_match ELSE clarification_related

short_answer_apology == "I apologize, but I couldn't generate a complete response."

\* the answer after the empty-or-too-short test; `answer` is the completion
\* text as clean_response_format and format_financial_response left it
checked_answer(answer) ==
    IF answer = "" \/ WordCount(answer) < 5 THEN short_answer_apology ELSE answer

(***************************************************************************)
(* Bounded inputs.                                                         *)
(***************************************************************************)
\* cap on interaction_count in the two-session specification
MaxCount == 1

\* cap on interaction_count in the single-session specification with every input varied
TurnMaxCount == 2

\* cap on interaction_count in the single-session specification
LongMaxCount == 10

\* cap on interaction_count in the single-session specification of the greeting path
GreetMaxCount == 6

\* cap on the stored messages a failed summarization may leave behind
MaxMessages == 12

PositiveSentiment == [positive |-> 80, negative |-> 0, neutral |-> 20]

SalesIntent == [product_interest |-> 70, contact_request |-> 10]

\* the index as scored for one query
IndexEmpty == {}

IndexGood ==
    {[id |-> 1, score |-> 82, industries |-> {"banking"}, topics |-> {"regulatory_compliance"}],
     [id |-> 2, score |-> 74, industries |-> {"banking"}, topics |-> {"digital_transformation"}],
     [id |-> 3, score |-> 68, industries |-> {"insurance"}, topics |-> {"regulatory_compliance"}]}

IndexFilteredOnly ==
    {[id |-> 3, score |-> 67, industries |-> {"insurance"}, topics |-> {"regulatory_compliance"}],
     [id |-> 4, score |-> 69, industries |-> {"banking"}, topics |-> {"digital_transformation"}]}

BankingAnalysis ==
    [ok |-> TRUE,
     value |-> [industry_vertical |-> "banking", topics_of_interest |-> {"KYC"},
                potential_use_cases |-> {}, detected_pain_points |-> {}]]

NoAnalysis == [ok |-> FALSE]

SummaryFailed == [ok |-> FALSE, text |-> ""]

IntentFailed == [ok |-> FALSE]

RetrievalCalls == {"preferences", "embedding", "search", "filtered_search"}

AnswerCalls == {"answer", "sentiment", "topics"}

HelloAgain == "Hello again! How can I assist with your financial services technology questions today?"

HiThere == "Hi there! What financial technology topics would you like to explore?"

\* two session ids, at most MaxCount exchanges each
Inputs ==
    [ids |-> {"s1", "s2"},
     messages |-> {"Hi!", "hello there", "What is KYC?"},
     choices |-> {HelloAgain, HiThere},
     analyses |-> {NoAnalysis, BankingAnalysis},
     indexes |-> {IndexEmpty, IndexGood, IndexFilteredOnly},
     answers |-> {"We run KYC checks at onboarding."},
     sentiments |-> {DefaultSentiment},
     topics |-> {<<"KYC", "compliance">>},
     summaries |-> {SummaryFailed, [ok |-> TRUE, text |-> "Summary of the talk"]},
     intents |-> {IntentFailed, [ok |-> TRUE, value |-> DefaultIntent]},
     retrieval_failures |-> RetrievalCalls,
     answer_failures |-> AnswerCalls,
     max_count |-> MaxCount]

\* one session, every input varied, at most TurnMaxCount exchanges
TurnInputs ==
    [ids |-> {"s1"},
     messages |-> {"Hi!", "hello there", "What is KYC?", "Book a demo"},
     choices |-> {HelloAgain, HiThere},
     analyses |-> {NoAnalysis, BankingAnalysis},
     indexes |-> {IndexEmpty, IndexGood, IndexFilteredOnly},
     answers |-> {"", "We run KYC checks at onboarding."},
     sentiments |-> {DefaultSentiment},
     topics |-> {<<"KYC", "compliance">>},
     summaries |-> {SummaryFailed, [ok |-> TRUE, text |-> "Summary of the talk"]},
     intents |-> {IntentFailed, [ok |-> TRUE, value |-> DefaultIntent], [ok |-> TRUE, value |-> SalesIntent]},
     retrieval_failures |-> RetrievalCalls,
     answer_failures |-> AnswerCalls,
     max_count |-> TurnMaxCount]

\* one session, up to LongMaxCount exchanges
LongInputs ==
    [ids |-> {"s1"},
     messages |-> {"Hello", "What is KYC?", "Book a demo"},
     choices |-> {HelloAgain},
     analyses |-> {NoAnalysis, BankingAnalysis},
     indexes |-> {IndexEmpty, IndexGood},
     answers |-> {"We run KYC checks at onboarding."},
     sentiments |-> {PositiveSentiment},
     topics |-> {<<"rates">>},
     summaries |-> {SummaryFailed, [ok |-> TRUE, text |-> "Summary of the talk"], [ok |-> TRUE, text |-> ""]},
     intents |-> {IntentFailed, [ok |-> TRUE, value |-> DefaultIntent]},
     retrieval_failures |-> {"embedding"},
     answer_failures |-> {"answer"},
     max_count |-> LongMaxCount]

\* one session, greetings of every form, up to GreetMaxCount exchanges
GreetInputs ==
    [ids |-> {"s1"},
     messages |-> {"Hello", "hello there", "High risk KYC"},
     choices |-> {HelloAgain, HiThere},
     analyses |-> {NoAnalysis},
     indexes |-> {IndexEmpty, IndexGood},
     answers |-> {"We run KYC checks at onboarding."},
     sentiments |-> {PositiveSentiment},
     topics |-> {<<"rates">>},
     summaries |-> {SummaryFailed, [ok |-> TRUE, text |-> "Summary of the talk"]},
     intents |-> {[ok |-> TRUE, value |-> DefaultIntent]},
     retrieval_failures |-> {"embedding"},
     answer_failures |-> {"answer"},
     max_count |-> GreetMaxCount]

\* a function with every value computed once
Tabulated(f) == f @@ << >>

\* cap on interaction_count in the specification of POST /lead
LeadMaxCount == 2

\* one session whose visitor may type an e-mail address, and the lead
\* forms and notification outcomes of POST /lead
LeadInputs ==
    [ids |-> {"s1"},
     messages |-> {"Mail me at kim@bank.example", "What is KYC?"},
     analyses |-> {NoAnalysis},
     indexes |-> {IndexGood},
     answers |-> {"We run KYC checks at onboarding."},
     sentiments |-> {PositiveSentiment},
     topics |-> {<<"rates">>},
     summaries |-> {[ok |-> TRUE, text |-> "Summary of the talk"]},
     intents |-> {[ok |-> TRUE, value |-> DefaultIntent]},
     emails |-> {"kim@bank.example", "lee@fund.example"},
     modules |-> {"email_service", "sendgrid_service", "none"},
     outcomes |-> {"true", "false", "raised"},
     max_count |-> LeadMaxCount]

AllMessages ==
    Inputs.messages \cup TurnInputs.messages \cup LongInputs.messages \cup GreetInputs.messages
        \cup LeadInputs.messages

AllIndexes == Inputs.indexes \cup TurnInputs.indexes \cup LongInputs.indexes

\* is_greeting(req.message), enhanced_financial_search(query=req.message, ...) and
\* the number of index searches it issues, tabulated over the bounded inputs
GreetingTable == Tabulated([m \in AllMessages |-> is_greeting(m)])

SearchTable ==
    Tabulated([m \in AllMessages |-> Tabulated([ix \in AllIndexes |-> enhanced_financial_search(m, ix, search_limit)])])

SearchCallsTable ==
    Tabulated([m \in AllMessages |-> Tabulated([ix \in AllIndexes |->
        IF needs_filtered_search(m, qdrant_search(ix, NoFilter, search_limit, 70)) THEN 2 ELSE 1])])

AllAnswers == Inputs.answers \cup TurnInputs.answers \cup LongInputs.answers

AllTopics == {"greeting"} \cup UNION {{ts[i] : i \in 1..Len(ts)} : ts \in Inputs.topics \cup TurnInputs.topics \cup LongInputs.topics}

TuplesUpTo(S, n) == UNION {[1..k -> S] : k \in 0..n}

\* the keyword tests of should_show_form, tabulated over the short argument lists
HighValueTopicTable == Tabulated([ts \in TuplesUpTo(AllTopics, 3) |-> high_value_topic_in(ts)])

LeadKeywordTable == Tabulated([us \in TuplesUpTo(AllMessages, 2) |-> lead_keyword_in(us)])

CheckedAnswerTable == Tabulated([a \in AllAnswers |-> checked_answer(a)])

has_high_value_topic(mem) ==
    IF mem.topics_discussed \in DOMAIN HighValueTopicTable
    THEN HighValueTopicTable[mem.topics_discussed]
    ELSE high_value_topic_in(mem.topics_discussed)

has_lead_keyword(mem) ==
    LET recent_msgs == LastN(mem.messages, 4)
        user_contents == UserContents(recent_msgs)
    IN  IF user_contents \in DOMAIN LeadKeywordTable
        THEN LeadKeywordTable[user_contents]
        ELSE lead_keyword_in(user_contents)

\* should_show_form with the count test off by one
should_show_form_After(mem, intent_scores) ==
    IF mem.interaction_count > form_after_exchanges THEN TRUE
    ELSE IF intent_scores.product_interest > 60 \/ intent_scores.contact_request > 50 THEN TRUE
    ELSE IF has_lead_keyword(mem) THEN TRUE
    ELSE IF has_high_value_topic(mem) /\ mem.interaction_count >= 3
         THEN LET recent_sentiments == LastN(mem.sentiment_history, 3)
              IN  recent_sentiments # <<>>
                  /\ SumPositive(recent_sentiments) > 65 * Len(recent_sentiments)
         ELSE FALSE

\* the division in the sentiment branch is by len(recent_sentiments)
should_show_form_raises(mem, intent_scores) ==
    /\ mem.interaction_count < form_after_exchanges
    /\ ~(intent_scores.product_interest > 60 \/ intent_scores.contact_request > 50)
    /\ ~has_lead_keyword(mem)
    /\ has_high_value_topic(mem) /\ mem.interaction_count >= 3
    /\ mem.sentiment_history = <<>>

should_show_form(mem, intent_scores) ==
    IF mem.interaction_count >= form_after_exchanges THEN TRUE
    ELSE IF intent_scores.product_interest > 60 \/ intent_scores.contact_request > 50 THEN TRUE
    ELSE IF has_lead_keyword(mem) THEN TRUE
    ELSE IF has_high_value_topic(mem) /\ mem.interaction_count >= 3
         THEN LET recent_sentiments == LastN(mem.sentiment_history, 3)
              IN  recent_sentiments # <<>>
                  /\ SumPositive(recent_sentiments) > 65 * Len(recent_sentiments)
         ELSE FALSE

(***************************************************************************)
(* The session store and the last response.  resp is the HTTP response of  *)
(* the latest request together with the request it answers; calls counts   *)
(* the external calls that request issued.                                 *)
(***************************************************************************)
\* results is len(search_results) once the search has returned (-1 before),
\* summary_reply the text the summarization call returned, caught the number
\* of exceptions that update_financial_context caught
NoCalls ==
    [embedding |-> 0, search |-> 0, answer |-> 0, summary |-> 0, other |-> 0,
     results |-> -1, summary_reply |-> "", caught |-> 0]

NoResponse ==
    [op |-> "none", session_id |-> NoneValue, message |-> "", status |-> 0, kind |-> "none",
     reply |-> "", detail |-> "", show_form |-> FALSE, sources |-> <<>>]

ChatResponse(sid, message, kind, reply, show_form, sources) ==
    [op |-> "chat", session_id |-> sid, message |-> message, status |-> 200, kind |-> kind,
     reply |-> reply, detail |-> "", show_form |-> show_form, sources |-> sources]

\* raise HTTPException(status_code=500, ...); detail names the call that raised
ChatError(sid, message, at) ==
    [op |-> "chat", session_id |-> sid, message |-> message, status |-> 500, kind |-> "error",
     reply |-> "", detail |-> at, show_form |-> FALSE, sources |-> <<>>]

Sources(search_results) ==
    [i \in 1..Len(search_results) |-> [id |-> search_results[i].id, score |-> search_results[i].score]]

\* is_duplicate looking at the last stored message
is_duplicate_LastMessage(mem, message) ==
    /\ mem.messages # <<>>
    /\ Len(mem.messages) >= 2
    /\ mem.messages[Len(mem.messages)].content = message

is_duplicate(mem, message) ==
    /\ mem.messages # <<>>
    /\ Len(mem.messages) >= 2
    /\ mem.messages[Len(mem.messages) - 1].content = message

\* the completion call inside update_financial_context is made from the
\* second stored exchange on
ContextCalls(mem) == IF mem.interaction_count <= 1 THEN 0 ELSE 1

ContextCaught(mem, analysis) == IF mem.interaction_count > 1 /\ ~analysis.ok THEN 1 ELSE 0

SearchCalls(message, index) == SearchCallsTable[message][index]

\* No ingestion run has started.
NoIngest == [pipeline |-> "none"]

\* No request is in flight and no handler holds the event loop.
NoTasks == [tasks |-> <<>>, current |-> 0]

Init ==
    /\ sessions = [s \in {} |-> ConversationMemory]
    /\ resp = NoResponse
    /\ calls = NoCalls
    /\ out = [op |-> "none"]
    /\ ingest = NoIngest
    /\ loop = NoTasks

\* ChatNewSession storing the first message with the welcome reply
ChatNewSession_StoresExchange(ids, req_sid, message) ==
    \E sid \in (IF req_sid = NoneValue THEN ids \ DOMAIN sessions ELSE {req_sid}) :
        /\ sid \notin DOMAIN sessions
        /\ sessions' = [s \in DOMAIN sessions \cup {sid} |->
                            IF s = sid
                            THEN append_exchange(ConversationMemory, message, generate_welcome_message,
                                                 DefaultSentiment, <<>>)
                            ELSE sessions[s]]
        /\ resp' = ChatResponse(sid, message, "welcome", generate_welcome_message, FALSE, <<>>)
        /\ calls' = NoCalls

\* POST /chat, session id unseen (or absent: a fresh uuid)
ChatNewSession(ids, req_sid, message) ==
    \E sid \in (IF req_sid = NoneValue THEN ids \ DOMAIN sessions ELSE {req_sid}) :
        /\ sid \notin DOMAIN sessions
        /\ sessions' = [s \in DOMAIN sessions \cup {sid} |->
                            IF s = sid THEN ConversationMemory ELSE sessions[s]]
        /\ resp' = ChatResponse(sid, message, "welcome", generate_welcome_message, FALSE, <<>>)
        /\ calls' = NoCalls

\* POST /chat, greeting in an existing session
ChatGreeting(sid, message, choice, summ, max_count) ==
    /\ sid \in DOMAIN sessions
    /\ GreetingTable[message]
    /\ LET memory == sessions[sid]
           is_first_greeting == Len(memory.messages) = 0
           greeting_response == generate_greeting_response(is_first_greeting, choice)
           ex == add_exchange(memory, message, greeting_response, GreetingSentiment, <<"greeting">>, summ)
       IN  IF memory.messages = <<>> \/ memory.messages[Len(memory.messages)].content # greeting_response
           THEN /\ memory.interaction_count < max_count
                /\ ex.raised => Len(ex.mem.messages) <= MaxMessages
                /\ sessions' = [sessions EXCEPT ![sid] = ex.mem]
                /\ calls' = [NoCalls EXCEPT !.summary = IF ex.summarized THEN 1 ELSE 0,
                                            !.summary_reply = IF ex.summarized THEN summ.text ELSE ""]
                /\ resp' = IF ex.raised THEN ChatError(sid, message, "summary")
                           ELSE ChatResponse(sid, message, "greeting", greeting_response, FALSE, <<>>)
           ELSE /\ sessions' = sessions
                /\ calls' = NoCalls
                /\ resp' = ChatResponse(sid, message, "greeting", greeting_response, FALSE, <<>>)

\* the duplicate notice carrying the interaction-count trigger of the form
ChatDuplicate_ShowsForm(sid, message) ==
    /\ sid \in DOMAIN sessions
    /\ ~GreetingTable[message]
    /\ is_duplicate(sessions[sid], message)
    /\ sessions' = sessions
    /\ resp' = ChatResponse(sid, message, "duplicate", duplicate_notice,
                             sessions[sid].interaction_count >= form_after_exchanges, <<>>)
    /\ calls' = NoCalls

\* the duplicate notice stored as an exchange of the session
ChatDuplicate_StoresExchange(sid, message) ==
    /\ sid \in DOMAIN sessions
    /\ ~GreetingTable[message]
    /\ is_duplicate(sessions[sid], message)
    /\ sessions' = [sessions EXCEPT ![sid] =
            append_exchange(@, message, duplicate_notice, DefaultSentiment, <<>>)]
    /\ resp' = ChatResponse(sid, message, "duplicate", duplicate_notice, FALSE, <<>>)
    /\ calls' = NoCalls

\* POST /chat, repeat of the last stored user message
ChatDuplicate(sid, message) ==
    /\ sid \in DOMAIN sessions
    /\ ~GreetingTable[message]
    /\ is_duplicate(sessions[sid], message)
    /\ sessions' = sessions
    /\ resp' = ChatResponse(sid, message, "duplicate", duplicate_notice, FALSE, <<>>)
    /\ calls' = NoCalls

Processed(sid, message) ==
    /\ sid \in DOMAIN sessions
    /\ ~GreetingTable[message]
    /\ ~is_duplicate(sessions[sid], message)

\* POST /chat, a call raises before the search results are there
ChatFailRetrieval(sid, message, analysis, index, at) ==
    /\ Processed(sid, message)
    /\ at \in RetrievalCalls
    /\ at = "filtered_search" => SearchCalls(message, index) = 2
    /\ sessions' = [sessions EXCEPT ![sid] = update_financial_context(@, analysis)]
    /\ resp' = ChatError(sid, message, at)
    /\ calls' = [NoCalls EXCEPT
                    !.other = ContextCalls(sessions[sid]) + 1,
                    !.caught = ContextCaught(sessions[sid], analysis),
                    !.embedding = IF at = "preferences" THEN 0 ELSE 1,
                    !.search = CASE at = "search" -> 1
                                 [] at = "filtered_search" -> 2
                                 [] OTHER -> 0]

\* ChatClarification storing the clarification as an exchange
ChatClarification_StoresExchange(sid, message, analysis, index) ==
    /\ Processed(sid, message)
    /\ LET search_results == SearchTable[message][index]
       IN  /\ weak_results(search_results)
           /\ sessions' = [sessions EXCEPT ![sid] =
                   append_exchange(update_financial_context(@, analysis), message,
                                   generate_clarification_prompt(search_results), DefaultSentiment, <<>>)]
           /\ resp' = ChatResponse(sid, message, "clarification",
                                    generate_clarification_prompt(search_results), FALSE, Sources(search_results))
           /\ calls' = [NoCalls EXCEPT
                           !.other = ContextCalls(sessions[sid]) + 1,
                           !.caught = ContextCaught(sessions[sid], analysis),
                           !.embedding = 1,
                           !.search = SearchCalls(message, index),
                           !.results = Len(search_results)]

\* POST /chat, weak or no results
ChatClarification(sid, message, analysis, index) ==
    /\ Processed(sid, message)
    /\ LET search_results == SearchTable[message][index]
       IN  /\ weak_results(search_results)
           /\ sessions' = [sessions EXCEPT ![sid] = update_financial_context(@, analysis)]
           /\ resp' = ChatResponse(sid, message, "clarification",
                                    generate_clarification_prompt(search_results), FALSE, Sources(search_results))
           /\ calls' = [NoCalls EXCEPT
                           !.other = ContextCalls(sessions[sid]) + 1,
                           !.caught = ContextCaught(sessions[sid], analysis),
                           !.embedding = 1,
                           !.search = SearchCalls(message, index),
                           !.results = Len(search_results)]

\* POST /chat, the answer completion, the sentiment or the topic call raises
ChatFailAnswer(sid, message, analysis, index, at) ==
    /\ Processed(sid, message)
    /\ at \in AnswerCalls
    /\ LET search_results == SearchTable[message][index]
       IN  /\ ~weak_results(search_results)
           /\ sessions' = [sessions EXCEPT ![sid] =
                   [update_financial_context(@, analysis) EXCEPT !.last_sources = Sources(search_results)]]
           /\ resp' = ChatError(sid, message, at)
           /\ calls' = [NoCalls EXCEPT
                           !.other = ContextCalls(sessions[sid]) + 1
                                     + (IF at = "answer" THEN 0 ELSE IF at = "sentiment" THEN 1 ELSE 2),
                           !.caught = ContextCaught(sessions[sid], analysis),
                           !.embedding = 1,
                           !.search = SearchCalls(message, index),
                           !.results = Len(search_results),
                           !.answer = 1]

\* ChatAnswer deciding show_form on the memory as it was before add_exchange
ChatAnswer_FormBeforeExchange(sid, message, analysis, index, answer, sentiment, topics, summ, intent, max_count) ==
    /\ Processed(sid, message)
    /\ sessions[sid].interaction_count < max_count
    /\ LET search_results == SearchTable[message][index]
           sources == Sources(search_results)
           memory == [update_financial_context(sessions[sid], analysis) EXCEPT !.last_sources = sources]
           ex == add_exchange(memory, message, CheckedAnswerTable[answer], sentiment, topics, summ)
       IN  /\ ~weak_results(search_results)
           /\ ex.raised => Len(ex.mem.messages) <= MaxMessages
           /\ sessions' = [sessions EXCEPT ![sid] = ex.mem]
           /\ calls' = [NoCalls EXCEPT
                           !.other = ContextCalls(sessions[sid]) + 3 + (IF ex.raised THEN 0 ELSE 1),
                           !.caught = ContextCaught(sessions[sid], analysis),
                           !.embedding = 1,
                           !.search = SearchCalls(message, index),
                           !.results = Len(search_results),
                           !.answer = 1,
                           !.summary = IF ex.summarized THEN 1 ELSE 0,
                           !.summary_reply = IF ex.summarized THEN summ.text ELSE ""]
           /\ resp' = IF ex.raised THEN ChatError(sid, message, "summary")
                      ELSE IF ~intent.ok THEN ChatError(sid, message, "intent")
                      ELSE IF should_show_form_raises(memory, intent.value)
                           THEN ChatError(sid, message, "show_form")
                      ELSE ChatResponse(sid, message, "answer", CheckedAnswerTable[answer],
                                        should_show_form(memory, intent.value), sources)

\* POST /chat, the turn reaches add_exchange
ChatAnswer(sid, message, analysis, index, answer, sentiment, topics, summ, intent, max_count) ==
    /\ Processed(sid, message)
    /\ sessions[sid].interaction_count < max_count
    /\ LET search_results == SearchTable[message][index]
           sources == Sources(search_results)
           memory == [update_financial_context(sessions[sid], analysis) EXCEPT !.last_sources = sources]
           ex == add_exchange(memory, message, CheckedAnswerTable[answer], sentiment, topics, summ)
       IN  /\ ~weak_results(search_results)
           /\ ex.raised => Len(ex.mem.messages) <= MaxMessages
           /\ sessions' = [sessions EXCEPT ![sid] = ex.mem]
           /\ calls' = [NoCalls EXCEPT
                           !.other = ContextCalls(sessions[sid]) + 3 + (IF ex.raised THEN 0 ELSE 1),
                           !.caught = ContextCaught(sessions[sid], analysis),
                           !.embedding = 1,
                           !.search = SearchCalls(message, index),
                           !.results = Len(search_results),
                           !.answer = 1,
                           !.summary = IF ex.summarized THEN 1 ELSE 0,
                           !.summary_reply = IF ex.summarized THEN summ.text ELSE ""]
           /\ resp' = IF ex.raised THEN ChatError(sid, message, "summary")
                      ELSE IF ~intent.ok THEN ChatError(sid, message, "intent")
                      ELSE IF should_show_form_raises(ex.mem, intent.value)
                           THEN ChatError(sid, message, "show_form")
                      ELSE ChatResponse(sid, message, "answer", CheckedAnswerTable[answer],
                                        should_show_form(ex.mem, intent.value), sources)

\* clear_session answering 200 for an unknown id
clear_session_NoNotFound(session_id) ==
    /\ calls' = NoCalls
    /\ sessions' = [s \in DOMAIN sessions \ {session_id} |-> sessions[s]]
    /\ resp' = [NoResponse EXCEPT !.op = "delete", !.session_id = session_id,
                                  !.status = 200, !.kind = "cleared"]

\* DELETE /sessions/{session_id}
clear_session(session_id) ==
    /\ calls' = NoCalls
    /\ IF session_id \in DOMAIN sessions
       THEN /\ sessions' = [s \in DOMAIN sessions \ {session_id} |-> sessions[s]]
            /\ resp' = [NoResponse EXCEPT !.op = "delete", !.session_id = session_id,
                                          !.status = 200, !.kind = "cleared"]
       ELSE /\ sessions' = sessions
            /\ resp' = [NoResponse EXCEPT !.op = "delete", !.session_id = session_id,
                                          !.status = 404, !.kind = "not_found"]

ChatNewSessionStep(In) ==
    \E req_sid \in In.ids \cup {NoneValue}, message \in In.messages :
        /\ ChatNewSession(In.ids, req_sid, message)
        /\ UNCHANGED <<out, ingest, loop>>

ChatGreetingStep(In) ==
    \E sid \in In.ids, message \in In.messages, choice \in In.choices, summ \in In.summaries :
        /\ ChatGreeting(sid, message, choice, summ, In.max_count)
        /\ UNCHANGED <<out, ingest, loop>>

ChatDuplicateStep(In) ==
    \E sid \in In.ids, message \in In.messages :
        /\ ChatDuplicate(sid, message)
        /\ UNCHANGED <<out, ingest, loop>>

ChatFailRetrievalStep(In) ==
    \E sid \in In.ids, message \in In.messages, analysis \in In.analyses, index \in In.indexes,
       at \in In.retrieval_failures :
        /\ ChatFailRetrieval(sid, message, analysis, index, at)
        /\ UNCHANGED <<out, ingest, loop>>

ChatClarificationStep(In) ==
    \E sid \in In.ids, message \in In.messages, analysis \in In.analyses, index \in In.indexes :
        /\ ChatClarification(sid, message, analysis, index)
        /\ UNCHANGED <<out, ingest, loop>>

ChatFailAnswerStep(In) ==
    \E sid \in In.ids, message \in In.messages, analysis \in In.analyses, index \in In.indexes,
       at \in In.answer_failures :
        /\ ChatFailAnswer(sid, message, analysis, index, at)
        /\ UNCHANGED <<out, ingest, loop>>

ChatAnswerStep(In) ==
    \E sid \in In.ids, message \in In.messages, analysis \in In.analyses, index \in In.indexes,
       answer \in In.answers, sentiment \in In.sentiments, topics \in In.topics,
       summ \in In.summaries, intent \in In.intents :
        /\ ChatAnswer(sid, message, analysis, index, answer, sentiment, topics, summ, intent, In.max_count)
        /\ UNCHANGED <<out, ingest, loop>>

ClearSessionStep(In) ==
    \E session_id \in In.ids :
        /\ clear_session(session_id)
        /\ UNCHANGED <<out, ingest, loop>>

Next ==
    \/ ChatNewSessionStep(Inputs)
    \/ ChatGreetingStep(Inputs)
    \/ ChatDuplicateStep(Inputs)
    \/ ChatFailRetrievalStep(Inputs)
    \/ ChatClarificationStep(Inputs)
    \/ ChatFailAnswerStep(Inputs)
    \/ ChatAnswerStep(Inputs)
    \/ ClearSessionStep(Inputs)

Spec == Init /\ [][Next]_vars

NextLong ==
    \/ ChatNewSessionStep(LongInputs)
    \/ ChatGreetingStep(LongInputs)
    \/ ChatDuplicateStep(LongInputs)
    \/ ChatFailRetrievalStep(LongInputs)
    \/ ChatClarificationStep(LongInputs)
    \/ ChatFailAnswerStep(LongInputs)
    \/ ChatAnswerStep(LongInputs)
    \/ ClearSessionStep(LongInputs)

SpecLong == Init /\ [][NextLong]_vars

NextTurn ==
    \/ ChatNewSessionStep(TurnInputs)
    \/ ChatGreetingStep(TurnInputs)
    \/ ChatDuplicateStep(TurnInputs)
    \/ ChatFailRetrievalStep(TurnInputs)
    \/ ChatClarificationStep(TurnInputs)
    \/ ChatFailAnswerStep(TurnInputs)
    \/ ChatAnswerStep(TurnInputs)
    \/ ClearSessionStep(TurnInputs)

SpecTurn == Init /\ [][NextTurn]_vars

NextGreet ==
    \/ ChatNewSessionStep(GreetInputs)
    \/ ChatGreetingStep(GreetInputs)
    \/ ChatDuplicateStep(GreetInputs)
    \/ ChatFailRetrievalStep(GreetInputs)
    \/ ChatClarificationStep(GreetInputs)
    \/ ChatFailAnswerStep(GreetInputs)
    \/ ChatAnswerStep(GreetInputs)
    \/ ClearSessionStep(GreetInputs)

SpecGreet == Init /\ [][NextGreet]_vars

(***************************************************************************)
(* enhanced_financial_search applied to bounded queries and indexes.        *)
(***************************************************************************)
\* number of points the index is drawn from
SearchPoolSize == 6

\* queries, limits and the indexes drawn from a pool of points, each with
\* its score and its payload
SearchInputs ==
    LET PoolPoint(i) ==
            LET k == ((i - 1) % 7) + 1
                scores == <<82, 74, 68, 66, 72, 60, 74>>
                industries == <<"banking", "banking", "insurance", "banking", "wealth_management",
                                "banking", "insurance">>
                topics == <<"regulatory_compliance", "digital_transformation", "regulatory_compliance",
                            "regulatory_compliance", "regulatory_compliance", "regulatory_compliance",
                            "risk_management">>
            IN  [id |-> i, score |-> scores[k], industries |-> {industries[k]}, topics |-> {topics[k]}]
    IN  [queries |-> {"What is KYC?", "PSD2 rules", "open banking and kyc", "Our pricing"},
         indexes |-> SUBSET {PoolPoint(i) : i \in 1..SearchPoolSize}
                     \cup {{PoolPoint(2), [PoolPoint(4) EXCEPT !.id = 20, !.score = 74]}},
         limits |-> {1, 3, search_limit}]

SearchTermsTable == Tabulated([q \in SearchInputs.queries |-> extract_financial_terms(q)])

\* the call of enhanced_financial_search that returns: its two searches and its result
NextSearch ==
    \E query \in SearchInputs.queries, index \in SearchInputs.indexes, limit \in SearchInputs.limits :
    LET search_results == qdrant_search(index, NoFilter, limit, 70)
        terms == SearchTermsTable[query]
        rerun == /\ terms # <<>>
                 /\ (Len(search_results) < 3 \/ MaxScore(search_results) < 75)
                 /\ create_financial_filters(terms) # NoFilter
        filtered_results ==
            IF rerun THEN qdrant_search(index, create_financial_filters(terms), limit, 65) ELSE <<>>
    IN  /\ out' = [op |-> "enhanced_financial_search", query |-> query, index |-> index, limit |-> limit,
                   search_results |-> search_results, filtered |-> rerun,
                   filtered_results |-> filtered_results,
                   results |-> IF rerun THEN merge_results(search_results, filtered_results, limit)
                                        ELSE search_results]
        /\ UNCHANGED <<sessions, resp, calls, ingest, loop>>

SpecSearch == Init /\ [][NextSearch]_vars

(***************************************************************************)
(* should_show_form applied to bounded memories.  add_exchange appends one  *)
(* sentiment per exchange, so sentiment_history is as long as               *)
(* interaction_count; only its last three entries and the last four         *)
(* messages are read.                                                       *)
(***************************************************************************)
\* largest interaction_count of the memories should_show_form is applied to
FormMaxCount == 10

FormInputs ==
    [counts |-> 0..FormMaxCount,
     topics |-> {<<>>, <<"greeting">>, <<"KYC", "compliance">>},
     sentiments |-> {DefaultSentiment, [positive |-> 65, negative |-> 5, neutral |-> 30], PositiveSentiment},
     messages |-> {"What is KYC?", "Book a demo"},
     intents |-> {DefaultIntent, SalesIntent,
                  [product_interest |-> 25, contact_request |-> 51],
                  [product_interest |-> 60, contact_request |-> 50]}]

\* the calls should_show_form(intent_scores) on the bounded memories: a
\* memory after `count` exchanges whose last exchanges carried `users` and
\* `recent`
InitForm ==
    LET FormMemory(count, topics, users, recent) ==
            [ConversationMemory EXCEPT
                !.interaction_count = count,
                !.topics_discussed = topics,
                !.messages = [i \in 1..2 * Len(users) |->
                                IF i % 2 = 1 THEN [role |-> "user", content |-> users[(i + 1) \div 2]]
                                ELSE [role |-> "assistant", content |-> "We run KYC checks at onboarding."]],
                !.sentiment_history = [i \in 1..count |->
                                IF i <= count - Len(recent) THEN DefaultSentiment
                                ELSE recent[i - (count - Len(recent))]]]
    IN  /\ sessions = [s \in {} |-> ConversationMemory]
        /\ resp = NoResponse
        /\ calls = NoCalls
        /\ out \in UNION {{[op |-> "should_show_form", mem |-> FormMemory(count, topics, users, recent),
                             intent_scores |-> intent_scores, returned |-> FALSE, result |-> FALSE] :
                                topics \in FormInputs.topics, intent_scores \in FormInputs.intents,
                                users \in [1..Min(count, 2) -> FormInputs.messages],
                                recent \in [1..Min(count, 3) -> FormInputs.sentiments]} :
                           count \in FormInputs.counts}
        /\ ingest = NoIngest
        /\ loop = NoTasks

\* should_show_form returns
NextForm ==
    /\ out.op = "should_show_form" /\ ~out.returned
    /\ out' = [out EXCEPT !.returned = TRUE, !.result = should_show_form(out.mem, out.intent_scores)]
    /\ UNCHANGED <<sessions, resp, calls, ingest, loop>>

SpecForm == InitForm /\ [][NextForm]_vars

(***************************************************************************)
(* The offline ingestion scripts: src/ingest.py (main), src/ingest_json.py  *)
(* (module body) and src/ingest_sitemap.py (ingest_content, which the       *)
(* Enhanced variant repeats).  A run walks the documents of the site; each  *)
(* step is one request to the site, to the embedding provider or to the     *)
(* vector index, together with the code that follows it up to the next      *)
(* request.  A document is described by what the chunker makes of it;       *)
(* slept lists the seconds of every time.sleep of the run; counts and       *)
(* embedded list, for every run that reached its end, the number of points  *)
(* in the collection and the chunks <<document, index>> it upserted.        *)
(***************************************************************************)
\* number of ingestion runs over the same site
MaxRuns == 2

max_retries == 3

upload_batch == 100

BATCH_SIZE == 64

\* largest batch size of the runs whose batches a small site fills
MaxBatch == 2

min_words == 50

\* container: the page has a <main>, <article> or <div class="content">;
\* content_*: the text of that container (of content.rendered for the REST
\* items of ingest_json.py); page_*: the text of the whole page
Site ==
    <<[container |-> TRUE, content_words |-> 120, content_chunks |-> 2, page_words |-> 150, page_chunks |-> 2],
      [container |-> FALSE, content_words |-> 0, content_chunks |-> 0, page_words |-> 80, page_chunks |-> 1],
      [container |-> TRUE, content_words |-> 60, content_chunks |-> 1, page_words |-> 90, page_chunks |-> 1]>>

Event(kind, cause, st) == [kind |-> kind, cause |-> cause, page |-> st.page, idx |-> st.idx]

\* chunk position of the page loop: the next document, or the upsert that
\* follows the loop; ingest_json.py has its documents already and goes to
\* the first chunk of the next document that has one
RECURSIVE NextDocument(_, _)
NextDocument(st, page) ==
    IF page > Len(Site) THEN [st EXCEPT !.status = "upsert", !.page = page, !.idx = 0, !.nchunks = 0,
                                        !.retry_count = 0]
    ELSE IF st.pipeline = "ingest_json"
         THEN IF Site[page].content_chunks = 0 THEN NextDocument(st, page + 1)
              ELSE [st EXCEPT !.status = "embed", !.page = page, !.idx = 0,
                              !.nchunks = Site[page].content_chunks, !.retry_count = 0]
         ELSE [st EXCEPT !.status = "fetch", !.page = page, !.idx = 0, !.nchunks = 0,
                         !.retry_count = 0]

\* a script is started: the first one, or the same one again after it ended;
\* batch is the number of points of its upsert batches
StartRun(pipeline, batch) ==
    /\ \/ ingest = NoIngest
       \/ /\ ingest.pipeline = pipeline /\ ingest.batch = batch
          /\ ingest.status \in {"done", "crashed"}
          /\ ingest.run < MaxRuns
    /\ LET st == [pipeline |-> pipeline,
                  run |-> IF ingest = NoIngest THEN 1 ELSE ingest.run + 1,
                  status |-> "start", page |-> 0, idx |-> 0, nchunks |-> 0,
                  retry_count |-> 0, slept |-> <<>>, points |-> <<>>,
                  batch |-> batch, upserts |-> <<>>, total_chunks |-> 0, total_uploads |-> 0,
                  collection |-> IF ingest = NoIngest THEN {} ELSE ingest.collection,
                  counts |-> IF ingest = NoIngest THEN <<>> ELSE ingest.counts,
                  embedded |-> IF ingest = NoIngest THEN <<>> ELSE ingest.embedded,
                  uuid4s |-> IF ingest = NoIngest THEN 0 ELSE ingest.uuid4s,
                  event |-> [kind |-> "none", cause |-> "none", page |-> 0, idx |-> 0]]
       IN  ingest' = [NextDocument(st, 1) EXCEPT !.event = Event("started", "none", st)]
    /\ UNCHANGED <<sessions, resp, calls, out, loop>>

NoDocument == [words |-> -1, chunks |-> 0]

\* fetch_page_content giving up a page that has no content container
fetch_page_content_NeedsContainer(page, outcome) ==
    IF outcome # "ok" \/ ~page.container THEN NoDocument
    ELSE [words |-> page.content_words, chunks |-> page.content_chunks]

\* fetch_page_content of ingest.py: None after an exception of requests.get
\* or raise_for_status, else the text of the container or of the whole page
fetch_page_content(page, outcome) ==
    IF outcome # "ok" THEN NoDocument
    ELSE IF page.container THEN [words |-> page.content_words, chunks |-> page.content_chunks]
    ELSE [words |-> page.page_words, chunks |-> page.page_chunks]

\* one turn of the page loop down to the chunking: fetch_page_content and
\* the word test of main (ingest.py); the request, the status test and the
\* container test of ingest_content (ingest_sitemap.py)
FetchPage(outcome) ==
    /\ ingest # NoIngest /\ ingest.status = "fetch"
    /\ LET page == Site[ingest.page]
           skip(cause) == [NextDocument(ingest, ingest.page + 1) EXCEPT
                              !.event = Event("no_document", cause, ingest)]
           first(n) == IF n = 0 THEN NextDocument(ingest, ingest.page + 1)
                       ELSE [ingest EXCEPT !.status = "embed", !.idx = 0, !.nchunks = n, !.retry_count = 0]
           take(n) == [first(n) EXCEPT !.event = Event("document", "none", ingest)]
       IN  ingest' =
               IF ingest.pipeline = "ingest"
               THEN LET content_data == fetch_page_content(page, outcome)
                    IN  IF content_data = NoDocument
                        THEN skip(IF outcome # "ok" THEN outcome ELSE "no_container")
                        ELSE IF content_data.words < min_words THEN skip("short_page")
                        ELSE take(content_data.chunks)
               ELSE IF outcome # "ok" THEN skip(outcome)
               ELSE IF ~page.container THEN skip("no_container")
               ELSE take(page.content_chunks)
    /\ UNCHANGED <<sessions, resp, calls, out, loop>>

\* every script drawing a random identifier
PointId_Random(st) == <<"uuid4", st.uuid4s + 1>>

\* the id of the point made of the chunk at hand: uuid.uuid4() is a fresh
\* identifier (the n-th one drawn), and uuid.uuid5(NAMESPACE_URL, name) a
\* function of the name
PointId(st) ==
    IF st.pipeline = "ingest" THEN <<"uuid4", st.uuid4s + 1>> ELSE <<"uuid5", <<st.page, st.idx>>>>

\* the batches of qdrant.upsert: a point replaces the stored point of its id
upsert(collection, points) == collection \cup {points[i].id : i \in 1..Len(points)}

\* the same pause after every failure
backoff_Constant(retry_count) == 2

\* seconds of the time.sleep after the failure that made retry_count
backoff(retry_count) == 2 ^ retry_count

\* the points a failed batch upsert of ingest.py loses
pending_DropsFailedBatch(points, upserted) == <<>>

\* the points still to be upserted after the upsert of a full batch:
\* `points = []` follows the call, and the handler of its exception leaves
\* the list as it is
pending(points, upserted) == IF upserted = "ok" THEN <<>> ELSE points

\* one embeddings.create for the chunk at hand and what the script does with
\* its result or its exception; upserted is the outcome of the qdrant.upsert
\* that ingest.py issues when the new point fills the batch.  upserts lists
\* every upsert call of the run, total_chunks counts the points built and
\* total_uploads the points of the upserts that returned
EmbedChunk(outcome, upserted) ==
    /\ ingest # NoIngest /\ ingest.status = "embed"
    /\ LET point == [id |-> PointId(ingest), page |-> ingest.page, idx |-> ingest.idx]
           points == Append(ingest.points, point)
           full == outcome = "ok" /\ ingest.pipeline = "ingest" /\ Len(points) >= ingest.batch
           stored == full /\ upserted = "ok"
           \* the next chunk of the document, or the next document after its last chunk
           NextChunk(st) == IF st.idx + 1 < st.nchunks
                            THEN [st EXCEPT !.idx = @ + 1, !.retry_count = 0]
                            ELSE NextDocument(st, st.page + 1)
       IN  /\ ~full => upserted = "ok"
           /\ ingest' =
                IF outcome = "ok"
                THEN LET st == [ingest EXCEPT
                                   !.uuid4s = @ + 1,
                                   !.total_chunks = @ + 1,
                                   !.points = IF full THEN pending(points, upserted) ELSE points,
                                   !.upserts = IF full THEN Append(@, [points |-> points, ok |-> stored])
                                               ELSE @,
                                   !.total_uploads = IF stored THEN @ + Len(points) ELSE @,
                                   !.collection = IF stored THEN upsert(@, points) ELSE @]
                     IN  [NextChunk(st) EXCEPT
                            !.event = IF full /\ ~stored THEN Event("chunk_error", "upsert", ingest)
                                      ELSE Event("embedded", "none", ingest)]
                ELSE CASE ingest.pipeline = "ingest" ->
                           IF ingest.retry_count + 1 = max_retries
                           THEN [NextChunk(ingest) EXCEPT
                                    !.event = Event("chunk_skipped", "embedding", ingest)]
                           ELSE [ingest EXCEPT
                                   !.retry_count = @ + 1,
                                   !.slept = Append(@, backoff(ingest.retry_count + 1)),
                                   !.event = Event("retry", "embedding", ingest)]
                       [] ingest.pipeline = "ingest_sitemap" ->
                           [NextDocument(ingest, ingest.page + 1) EXCEPT
                               !.event = Event("page_abandoned", "embedding", ingest)]
                       [] ingest.pipeline = "ingest_json" ->
                           [ingest EXCEPT
                               !.status = "crashed",
                               !.event = Event("crashed", "embedding", ingest)]
    /\ UNCHANGED <<sessions, resp, calls, out, loop>>

\* the upserts after the loop, which end the run: one call with the points
\* left in ingest.py, one call per batch in the other scripts.  The call
\* number fail_at raises (0: none does), which ends the script there
UpsertRemaining(fail_at) ==
    /\ ingest # NoIngest /\ ingest.status = "upsert"
    /\ LET points == ingest.points
           starts == IF ingest.pipeline = "ingest" THEN (IF points # <<>> THEN {0} ELSE {})
                     ELSE {i \in 0..(Len(points) - 1) : i % ingest.batch = 0}
           size == IF ingest.pipeline = "ingest" THEN Len(points) ELSE ingest.batch
           batches == [k \in 1..Cardinality(starts) |->
                          SubSeq(points, (k - 1) * size + 1, Min(k * size, Len(points)))]
           issued == IF fail_at = 0 THEN Len(batches) ELSE fail_at
           upserts == ingest.upserts \o [k \in 1..issued |-> [points |-> batches[k],
                                                              ok |-> fail_at = 0 \/ k < fail_at]]
           returned == SelectSeq(upserts, LAMBDA call : call.ok)
           collection == upsert(ingest.collection,
                                IF fail_at = 0 THEN points ELSE SubSeq(points, 1, (fail_at - 1) * size))
       IN  /\ fail_at \in 0..Len(batches)
           /\ ingest' =
                IF fail_at = 0
                THEN [ingest EXCEPT
                        !.status = "done",
                        !.collection = collection,
                        !.points = <<>>,
                        !.upserts = upserts,
                        !.total_uploads = @ + Len(points),
                        !.counts = Append(@, Cardinality(collection)),
                        !.embedded = Append(@, UNION {{<<returned[k].points[i].page, returned[k].points[i].idx>> :
                                                            i \in 1..Len(returned[k].points)} :
                                                      k \in 1..Len(returned)}),
                        !.event = Event("upserted", "none", ingest)]
                ELSE [ingest EXCEPT
                        !.status = "crashed",
                        !.collection = collection,
                        !.upserts = upserts,
                        !.event = Event("crashed", "upsert", ingest)]
    /\ UNCHANGED <<sessions, resp, calls, out, loop>>

NextIngest ==
    \/ \E pipeline \in {"ingest", "ingest_json", "ingest_sitemap"} :
            StartRun(pipeline, IF pipeline = "ingest" THEN upload_batch ELSE BATCH_SIZE)
    \/ \E outcome \in {"ok", "network_error", "bad_status"} : FetchPage(outcome)
    \/ \E outcome \in {"ok", "error"}, upserted \in {"ok", "error"} : EmbedChunk(outcome, upserted)
    \/ \E fail_at \in 0..1 : UpsertRemaining(fail_at)

SpecIngest == Init /\ [][NextIngest]_vars

\* one run of a script with batches of one point up to MaxBatch points,
\* which the chunks of the site fill
NextUpload ==
    \/ \E pipeline \in {"ingest", "ingest_json", "ingest_sitemap"}, batch \in 1..MaxBatch :
            ingest = NoIngest /\ StartRun(pipeline, batch)
    \/ \E outcome \in {"ok", "network_error"} : FetchPage(outcome)
    \/ \E outcome \in {"ok", "error"}, upserted \in {"ok", "error"} : EmbedChunk(outcome, upserted)
    \/ \E fail_at \in 0..4 : UpsertRemaining(fail_at)

SpecUpload == Init /\ [][NextUpload]_vars

(***************************************************************************)
(* The chunkers of the ingestion scripts: ContentProcessor.create_chunks    *)
(* of src/ingest.py and chunk_text of the other scripts.  The tokenizer     *)
(* is taken at word granularity: a token is a run of non-whitespace         *)
(* characters together with the single space before it, or one whitespace   *)
(* character; decoding concatenates.  The module constant MAX_TOKENS is an  *)
(* argument of the chunkers here, so that short texts exceed small values   *)
(* of it.                                                                   *)
(***************************************************************************)
\* largest number of pieces a text is built from
MaxAtoms == 3

MAX_TOKENS == 2000

MAX_TOKENS_WINDOW == 500

RECURSIVE Split(_, _)
\* s.split(sep)
Split(s, sep) ==
    LET hits == {i \in 1..(Len(s) - Len(sep) + 1) : SubSeq(s, i, i + Len(sep) - 1) = sep}
        k == IF hits = {} THEN 0 ELSE CHOOSE i \in hits : \A j \in hits : i <= j
    IN  IF k = 0 THEN <<s>>
        ELSE <<SubSeq(s, 1, k - 1)>> \o Split(SubSeq(s, k + Len(sep), Len(s)), sep)

RECURSIVE CollapseWhitespace(_)
\* re.sub(r'\s+', ' ', s)
CollapseWhitespace(s) ==
    IF s = "" THEN ""
    ELSE IF CharAt(s, 1) \in Whitespace THEN " " \o CollapseWhitespace(LStrip(s, Whitespace))
    ELSE CharAt(s, 1) \o CollapseWhitespace(SubSeq(s, 2, Len(s)))

\* the characters of \w
WordChars ==
    LET all == LowerChars \o UpperChars \o "0123456789_"
    IN  {CharAt(all, i) : i \in 1..Len(all)}

\* end of the longest run of characters of `chars` that starts at i (i - 1 if empty)
RunEnd(s, i, chars) ==
    LET stops == {j \in i..Len(s) : CharAt(s, j) \notin chars}
    IN  IF stops = {} THEN Len(s) ELSE (CHOOSE j \in stops : \A k \in stops : j <= k) - 1

\* end of the match of http[s]?://\S+[\w] that starts at i, 0 if there is none
UrlMatchEnd(s, i) ==
    LET body == IF StartsWith(SubSeq(s, i, Len(s)), "https://") THEN i + 8
                ELSE IF StartsWith(SubSeq(s, i, Len(s)), "http://") THEN i + 7
                ELSE 0
        stops == {j \in body..Len(s) : CharAt(s, j) \in Whitespace}
        last == IF stops = {} THEN Len(s) ELSE (CHOOSE j \in stops : \A k \in stops : j <= k) - 1
        ends == {q \in (body + 1)..last : CharAt(s, q) \in WordChars}
    IN  IF body = 0 \/ ends = {} THEN 0 ELSE CHOOSE q \in ends : \A j \in ends : j <= q

\* end of the match of [\w\.-]+@[\w\.-]+\.\w+ that starts at i, 0 if there is none
EmailMatchEnd(s, i) ==
    LET AddressChars == WordChars \cup {".", "-"}
        at == RunEnd(s, i, AddressChars) + 1
        last == RunEnd(s, at + 1, AddressChars)
        dots == {d \in (at + 2)..(last - 1) : CharAt(s, d) = "." /\ CharAt(s, d + 1) \in WordChars}
    IN  IF at = i \/ at > Len(s) \/ CharAt(s, at) # "@" \/ dots = {} THEN 0
        ELSE RunEnd(s, (CHOOSE d \in dots : \A j \in dots : j <= d) + 1, WordChars)

RECURSIVE RemoveUrls(_)
\* re.sub(r'http[s]?://\S+[\w]', '', s)
RemoveUrls(s) ==
    LET starts == {i \in 1..Len(s) : UrlMatchEnd(s, i) # 0}
    IN  IF starts = {} THEN s
        ELSE LET i == CHOOSE k \in starts : \A j \in starts : k <= j
             IN  SubSeq(s, 1, i - 1) \o RemoveUrls(SubSeq(s, UrlMatchEnd(s, i) + 1, Len(s)))

RECURSIVE RemoveEmails(_)
\* re.sub(r'[\w\.-]+@[\w\.-]+\.\w+', '', s)
RemoveEmails(s) ==
    LET starts == {i \in 1..Len(s) : EmailMatchEnd(s, i) # 0}
    IN  IF starts = {} THEN s
        ELSE LET i == CHOOSE k \in starts : \A j \in starts : k <= j
             IN  SubSeq(s, 1, i - 1) \o RemoveEmails(SubSeq(s, EmailMatchEnd(s, i) + 1, Len(s)))

\* ContentProcessor.preprocess_text; the quote replacements replace a
\* character by itself and the dash replacements concern characters that no
\* text here contains
preprocess_text(text) == RemoveEmails(RemoveUrls(Strip(CollapseWhitespace(text))))

RECURSIVE encode(_)
\* tokenizer.encode
encode(text) ==
    IF text = "" THEN <<>>
    ELSE LET start == IF CharAt(text, 1) = " " /\ Len(text) > 1 /\ CharAt(text, 2) \notin Whitespace
                      THEN 2 ELSE 1
             last == IF CharAt(text, start) \in Whitespace THEN start
                     ELSE RunEnd(text, start, {CharAt(text, j) : j \in 1..Len(text)} \ Whitespace)
         IN  <<SubSeq(text, 1, last)>> \o encode(SubSeq(text, last + 1, Len(text)))

count_tokens(text) == Len(encode(text))

RECURSIVE SplitSentences(_)
\* re.split(r'(?<=[.!?])\s+', para)
SplitSentences(para) ==
    LET cuts == {i \in 2..Len(para) :
                    CharAt(para, i) \in Whitespace /\ CharAt(para, i - 1) \in {".", "!", "?"}}
    IN  IF cuts = {} THEN <<para>>
        ELSE LET i == CHOOSE k \in cuts : \A j \in cuts : k <= j
             IN  <<SubSeq(para, 1, i - 1)>> \o SplitSentences(LStrip(SubSeq(para, i, Len(para)), Whitespace))

\* chunk_data without the copy of the metadata
ChunkData(chunk_text) == [text |-> chunk_text, token_count |-> count_tokens(chunk_text)]

\* the chunk made of the first piece alone
Flush_FirstPieceOnly(st) ==
    IF st.current_chunk # <<>> THEN Append(st.chunks, ChunkData(st.current_chunk[1])) ELSE st.chunks

\* `if current_chunk:` followed by the append of the joined pieces
Flush(st) ==
    IF st.current_chunk # <<>> THEN Append(st.chunks, ChunkData(Join(" ", st.current_chunk)))
    ELSE st.chunks

\* one sentence, or one paragraph within the limit, added to the running chunk
AddPiece(st, piece, max_tokens) ==
    LET tokens == count_tokens(piece)
    IN  IF st.current_size + tokens > max_tokens
        THEN [chunks |-> Flush(st), current_chunk |-> <<piece>>, current_size |-> tokens]
        ELSE [chunks |-> st.chunks, current_chunk |-> Append(st.current_chunk, piece),
              current_size |-> st.current_size + tokens]

RECURSIVE AddPieces(_, _, _)
AddPieces(st, pieces, max_tokens) ==
    IF pieces = <<>> THEN st
    ELSE AddPieces(AddPiece(st, Head(pieces), max_tokens), Tail(pieces), max_tokens)

RECURSIVE AddParagraphs(_, _, _)
\* the loop over the paragraphs
AddParagraphs(st, paragraphs, max_tokens) ==
    IF paragraphs = <<>> THEN st
    ELSE LET para == Head(paragraphs)
             next == IF count_tokens(para) > max_tokens
                     THEN AddPieces(st, SplitSentences(para), max_tokens)
                     ELSE AddPiece(st, para, max_tokens)
         IN  AddParagraphs(next, Tail(paragraphs), max_tokens)

\* ContentProcessor.create_chunks
create_chunks(text, max_tokens) ==
    LET paragraphs == Split(preprocess_text(text), "\n\n")
    IN  Flush(AddParagraphs([chunks |-> <<>>, current_chunk |-> <<>>, current_size |-> 0],
                            paragraphs, max_tokens))

\* chunk_text with windows one token too wide
chunk_text_WideWindow(text, max_tokens) ==
    LET tokens == encode(text)
        starts == {i \in 0..(Len(tokens) - 1) : i % (max_tokens + 1) = 0}
    IN  [k \in 1..Cardinality(starts) |->
            Join("", SubSeq(tokens, (k - 1) * (max_tokens + 1) + 1, Min(k * (max_tokens + 1), Len(tokens))))]

\* chunk_text: list of the texts it yields, tokenizer.decode being the
\* concatenation of the tokens
chunk_text(text, max_tokens) ==
    LET tokens == encode(text)
        starts == {i \in 0..(Len(tokens) - 1) : i % max_tokens = 0}
    IN  [k \in 1..Cardinality(starts) |->
            Join("", SubSeq(tokens, (k - 1) * max_tokens + 1, Min(k * max_tokens, Len(tokens))))]

ChunkInputs ==
    [texts |-> {Join("", atoms) : atoms \in TuplesUpTo({"a", " b.", " c", "\n\nd!", " http://x.io", " m@x.io"}, MaxAtoms)},
     limits |-> [create_chunks |-> {1, 2, MAX_TOKENS}, chunk_text |-> {1, 2, MAX_TOKENS_WINDOW}]]

InitChunk ==
    /\ sessions = [s \in {} |-> ConversationMemory]
    /\ resp = NoResponse
    /\ calls = NoCalls
    /\ out \in UNION {{[op |-> op, text |-> text, max_tokens |-> max_tokens, returned |-> FALSE,
                         chunks |-> <<>>, embedded |-> <<>>] :
                            text \in ChunkInputs.texts, max_tokens \in ChunkInputs.limits[op]} :
                       op \in {"create_chunks", "chunk_text"}}
    /\ ingest = NoIngest
    /\ loop = NoTasks

\* create_chunks as main calls it, and the chunks main goes on to embed:
\* those its chunk loop does not skip as too long; list(chunk_text(text)),
\* every chunk of which is embedded
NextChunked ==
    \/ /\ out.op = "create_chunks" /\ ~out.returned
       /\ LET chunks == create_chunks(out.text, out.max_tokens)
          IN  out' = [out EXCEPT !.returned = TRUE, !.chunks = chunks,
                                 !.embedded = SelectSeq(chunks,
                                                  LAMBDA chunk : ~(chunk.token_count > out.max_tokens))]
       /\ UNCHANGED <<sessions, resp, calls, ingest, loop>>
    \/ /\ out.op = "chunk_text" /\ ~out.returned
       /\ LET texts == chunk_text(out.text, out.max_tokens)
              chunks == [k \in 1..Len(texts) |-> ChunkData(texts[k])]
          IN  out' = [out EXCEPT !.returned = TRUE, !.chunks = chunks, !.embedded = chunks]
       /\ UNCHANGED <<sessions, resp, calls, ingest, loop>>

SpecChunk == InitChunk /\ [][NextChunked]_vars

(***************************************************************************)
(* The answer path of POST /chat with the replies of the sentiment and the  *)
(* intent completion as inputs: a reply is text that json.loads turns into  *)
(* an object, or text that json.loads rejects.                              *)
(***************************************************************************)
\* cap on interaction_count in the specification of the classifier replies
ParseMaxCount == 3

Unparseable == [json |-> FALSE]

\* analyze_sentiment answering zeros for a reply it cannot parse
analyze_sentiment_Zeros(reply) ==
    IF reply.json THEN reply.value ELSE [positive |-> 0, negative |-> 0, neutral |-> 0]

\* analyze_sentiment once the completion has returned
analyze_sentiment(reply) ==
    IF reply.json THEN reply.value ELSE [positive |-> 33, negative |-> 33, neutral |-> 34]

\* classify_intent once the completion has returned; of the six scores the
\* two that should_show_form reads
classify_intent(reply) ==
    IF reply.json THEN reply.value ELSE [product_interest |-> 25, contact_request |-> 25]

ParseInputs ==
    [ids |-> {"s1"},
     messages |-> {"What is KYC?", "Book a demo", "High risk KYC"},
     analyses |-> {NoAnalysis},
     indexes |-> {IndexGood},
     answers |-> {"We run KYC checks at onboarding."},
     sentiment_replies |-> {Unparseable, [json |-> TRUE, value |-> PositiveSentiment]},
     topic_replies |-> {"KYC, compliance", "KYC, KYC"},
     summaries |-> {[ok |-> TRUE, text |-> "Summary of the talk"]},
     intent_replies |-> {Unparseable, [json |-> TRUE, value |-> SalesIntent], [json |-> TRUE, value |-> [product_interest |-> 10, contact_request |-> 10]]},
     max_count |-> ParseMaxCount]

\* extract_topics once the completion has returned: the first three items
\* of the comma-separated reply
extract_topics(reply) ==
    LET items == Split(reply, ",")
        topics == [i \in 1..Len(items) |-> Strip(items[i])]
    IN  SubSeq(topics, 1, Min(3, Len(topics)))

\* the answer path, analyze_sentiment, extract_topics and classify_intent
\* applied to the replies
ChatAnswerParsedStep(In) ==
    \E sid \in In.ids, message \in In.messages, analysis \in In.analyses, index \in In.indexes,
       answer \in In.answers, sentiment_reply \in In.sentiment_replies, topic_reply \in In.topic_replies,
       summ \in In.summaries, intent_reply \in In.intent_replies :
        /\ ChatAnswer(sid, message, analysis, index, answer, analyze_sentiment(sentiment_reply),
                      extract_topics(topic_reply), summ,
                      [ok |-> TRUE, value |-> classify_intent(intent_reply)], In.max_count)
        /\ out' = [op |-> "classifiers", sentiment_reply |-> sentiment_reply, topic_reply |-> topic_reply,
                   intent_reply |-> intent_reply]
        /\ UNCHANGED <<ingest, loop>>

NextParse ==
    \/ ChatNewSessionStep(ParseInputs)
    \/ ChatDuplicateStep(ParseInputs)
    \/ ChatAnswerParsedStep(ParseInputs)
    \/ ClearSessionStep(ParseInputs)

SpecParse == Init /\ [][NextParse]_vars

(***************************************************************************)
(* POST /lead.  The notification is the call of send_lead_notification of   *)
(* the first module that imports (email_service, else sendgrid_service);    *)
(* its outcome is True, False or an exception.                              *)
(***************************************************************************)
\* the sessions a message of which contains the address
SessionsWith(email) ==
    {sid \in DOMAIN sessions :
        \E i \in 1..Len(sessions[sid].messages) : Contains(sessions[sid].messages[i].content, email)}

\* lead_capture answering 500 when the notification raises
lead_capture_SurfacesFailure(email, sid, module, outcome) ==
    /\ sid \in SessionsWith(email) \cup {NoneValue}
    /\ sid = NoneValue => SessionsWith(email) = {}
    /\ resp' = [NoResponse EXCEPT !.op = "lead", !.message = email,
                                  !.status = IF module # "none" /\ outcome = "raised" THEN 500 ELSE 200,
                                  !.kind = IF module # "none" /\ outcome = "raised" THEN "error" ELSE "ok"]
    /\ out' = [op |-> "lead_notification", module |-> module,
               outcome |-> IF module = "none" THEN "none" ELSE outcome,
               email_content |-> [contextual |-> FALSE, exchanges |-> 0, topics |-> {}, summary |-> ""],
               warned |-> FALSE]
    /\ calls' = NoCalls
    /\ UNCHANGED <<sessions, ingest, loop>>

\* POST /lead with a valid body; sid is the session the scan of the store
\* stops at, NoneValue when no message holds the address
lead_capture(email, sid, module, outcome) ==
    /\ sid \in SessionsWith(email) \cup {NoneValue}
    /\ sid = NoneValue => SessionsWith(email) = {}
    /\ LET memory == sessions[sid]
           \* what generate_lead_email reads of the memory, or the basic text
           email_content ==
               IF sid # NoneValue
               THEN [contextual |-> TRUE, exchanges |-> memory.interaction_count,
                     topics |-> {memory.topics_discussed[i] : i \in 1..Len(memory.topics_discussed)},
                     summary |-> memory.summary]
               ELSE [contextual |-> FALSE, exchanges |-> 0, topics |-> {}, summary |-> ""]
           email_sent == module # "none" /\ outcome = "true"
       IN  /\ out' = [op |-> "lead_notification", module |-> module,
                      outcome |-> IF module = "none" THEN "none" ELSE outcome,
                      email_content |-> email_content, warned |-> ~email_sent]
           /\ resp' = [NoResponse EXCEPT !.op = "lead", !.message = email, !.status = 200,
                                         !.kind = "ok",
                                         !.reply = "Thank you! A financial services expert from our team will be in touch with you shortly."]
    /\ calls' = NoCalls
    /\ UNCHANGED <<sessions, ingest, loop>>

NextLead ==
    \/ ChatNewSessionStep(LeadInputs)
    \/ ChatDuplicateStep(LeadInputs)
    \/ ChatAnswerStep(LeadInputs)
    \/ \E email \in LeadInputs.emails, sid \in LeadInputs.ids \cup {NoneValue},
          module \in LeadInputs.modules, outcome \in LeadInputs.outcomes :
            lead_capture(email, sid, module, outcome)

SpecLead == Init /\ [][NextLead]_vars

(***************************************************************************)
(* POST /chat requests in flight at once.  uvicorn.run(app) serves the app  *)
(* on one event loop; a request that has arrived is a task of that loop,    *)
(* and the loop leaves a running handler only at an await or at its         *)
(* return.  The handler is cut where it first calls a provider after the    *)
(* duplicate test, so that a task is ready (arrived), at "search" (session  *)
(* looked up and tested, provider calls and add_exchange to come) or done.  *)
(* seen is the memory the tests read and others the tasks that were ready   *)
(* when the handler started.                                                *)
(***************************************************************************)
\* number of requests that arrive
LoopMaxRequests == 3

\* the handler awaiting its provider calls
Yields_AtProviderCalls(pc) == pc = "search"

\* whether the handler leaves the event loop when it stops at pc: chat is
\* declared async and has no await
Yields(pc) == FALSE

\* a request arrives
AcceptChat(In) ==
    \E sid \in In.ids, message \in In.messages :
        /\ Len(loop.tasks) < LoopMaxRequests
        /\ loop' = [loop EXCEPT !.tasks = Append(@, [sid |-> sid, message |-> message, pc |-> "ready",
                                                     seen |-> NoneValue, others |-> {}, kind |-> "none"])]
        /\ UNCHANGED <<sessions, resp, calls, out, ingest>>

\* the loop starts the handler of task t: session lookup, greeting path and
\* duplicate test
StartChat(In, t) ==
    /\ t \in 1..Len(loop.tasks) /\ loop.tasks[t].pc = "ready" /\ loop.current = 0
    /\ LET sid == loop.tasks[t].sid
           message == loop.tasks[t].message
           others == {u \in 1..Len(loop.tasks) : u # t /\ loop.tasks[u].pc = "ready"}
           returns == \/ ChatNewSession(In.ids, sid, message)
                      \/ \E choice \in In.choices, summ \in In.summaries :
                            ChatGreeting(sid, message, choice, summ, LoopMaxRequests)
                      \/ ChatDuplicate(sid, message)
       IN  \/ /\ returns
              /\ loop' = [loop EXCEPT !.tasks[t].pc = "done", !.tasks[t].others = others,
                                      !.tasks[t].kind = resp'.kind]
           \/ /\ Processed(sid, message)
              /\ loop' = [loop EXCEPT !.tasks[t].pc = "search", !.tasks[t].others = others,
                                      !.tasks[t].seen = sessions[sid],
                                      !.current = IF Yields("search") THEN 0 ELSE t]
              /\ UNCHANGED <<sessions, resp, calls>>
    /\ UNCHANGED <<out, ingest>>

\* the handler of task t from update_financial_context to its return; at is
\* the call that raises ("none": none does)
ResumeChat(In, t) ==
    /\ t \in 1..Len(loop.tasks) /\ loop.tasks[t].pc = "search" /\ loop.current \in {0, t}
    /\ \E analysis \in In.analyses, index \in In.indexes, answer \in In.answers, sentiment \in In.sentiments,
          topics \in In.topics, summ \in In.summaries, intent \in In.intents,
          at \in {"none"} \cup In.retrieval_failures \cup In.answer_failures :
        LET sid == loop.tasks[t].sid
            message == loop.tasks[t].message
            search_results == SearchTable[message][index]
            sources == Sources(search_results)
            context == update_financial_context(sessions[sid], analysis)
            memory == [context EXCEPT !.last_sources = sources]
            ex == add_exchange(memory, message, CheckedAnswerTable[answer], sentiment, topics, summ)
            searched == [NoCalls EXCEPT
                            !.other = ContextCalls(sessions[sid]) + 1,
                            !.caught = ContextCaught(sessions[sid], analysis),
                            !.embedding = 1,
                            !.search = SearchCalls(message, index),
                            !.results = Len(search_results)]
        IN  /\ at = "filtered_search" => SearchCalls(message, index) = 2
            /\ CASE at \in In.retrieval_failures ->
                        /\ sessions' = [sessions EXCEPT ![sid] = context]
                        /\ resp' = ChatError(sid, message, at)
                        /\ calls' = [searched EXCEPT
                                        !.embedding = IF at = "preferences" THEN 0 ELSE 1,
                                        !.search = CASE at = "search" -> 1
                                                     [] at = "filtered_search" -> 2
                                                     [] OTHER -> 0,
                                        !.results = -1]
                 [] at \notin In.retrieval_failures /\ weak_results(search_results) ->
                        /\ sessions' = [sessions EXCEPT ![sid] = context]
                        /\ resp' = ChatResponse(sid, message, "clarification",
                                                 generate_clarification_prompt(search_results), FALSE, sources)
                        /\ calls' = searched
                 [] at \in In.answer_failures /\ ~weak_results(search_results) ->
                        /\ sessions' = [sessions EXCEPT ![sid] = memory]
                        /\ resp' = ChatError(sid, message, at)
                        /\ calls' = [searched EXCEPT
                                        !.other = @ + (IF at = "answer" THEN 0
                                                       ELSE IF at = "sentiment" THEN 1 ELSE 2),
                                        !.answer = 1]
                 [] at = "none" /\ ~weak_results(search_results) ->
                        /\ sessions' = [sessions EXCEPT ![sid] = ex.mem]
                        /\ resp' = IF ex.raised THEN ChatError(sid, message, "summary")
                                   ELSE IF ~intent.ok THEN ChatError(sid, message, "intent")
                                   ELSE IF should_show_form_raises(ex.mem, intent.value)
                                        THEN ChatError(sid, message, "show_form")
                                   ELSE ChatResponse(sid, message, "answer", CheckedAnswerTable[answer],
                                                     should_show_form(ex.mem, intent.value), sources)
                        /\ calls' = [searched EXCEPT
                                        !.other = @ + 2 + (IF ex.raised THEN 0 ELSE 1),
                                        !.answer = 1,
                                        !.summary = IF ex.summarized THEN 1 ELSE 0,
                                        !.summary_reply = IF ex.summarized THEN summ.text ELSE ""]
            /\ loop' = [loop EXCEPT !.tasks[t].pc = "done", !.tasks[t].kind = resp'.kind, !.current = 0]
    /\ UNCHANGED <<out, ingest>>

NextLoop ==
    \/ AcceptChat(GreetInputs)
    \/ \E t \in 1..LoopMaxRequests : StartChat(GreetInputs, t)
    \/ \E t \in 1..LoopMaxRequests : ResumeChat(GreetInputs, t)

SpecLoop == Init /\ [][NextLoop]_vars

(***************************************************************************)
(* Properties.                                                             *)
(***************************************************************************)
Without(f, k) == [s \in DOMAIN f \ {k} |-> f[s]]

\* the request answered by resp' was a POST /chat for a session the store held
ChatOnExisting == resp'.op = "chat" /\ resp'.session_id \in DOMAIN sessions

\* C1: a POST /chat whose session id is not in the store (given, or freshly
\* generated) creates the session, answers 200 with the welcome message,
\* show_form false and no sources, issues no embedding, search or completion
\* call, and leaves the new session with an empty history and a count of 0.
C1_NewSessionWelcome ==
    [][(resp'.op = "chat" /\ resp'.session_id \notin DOMAIN sessions) =>
        /\ resp'.status = 200
        /\ resp'.kind = "welcome"
        /\ resp'.reply = generate_welcome_message
        /\ resp'.show_form = FALSE
        /\ resp'.sources = <<>>
        /\ calls' = NoCalls
        /\ DOMAIN sessions' = DOMAIN sessions \cup {resp'.session_id}
        /\ sessions'[resp'.session_id].messages = <<>>
        /\ sessions'[resp'.session_id].interaction_count = 0
        /\ \A s \in DOMAIN sessions : sessions'[s] = sessions[s]]_vars

\* a session was just created next to one that already holds an exchange
C1_Witness ==
    /\ resp.op = "chat" /\ resp.kind = "welcome"
    /\ resp.session_id \in DOMAIN sessions
    /\ sessions[resp.session_id].messages = <<>>
    /\ \E s \in DOMAIN sessions : s # resp.session_id /\ sessions[s].interaction_count > 0

\* the session the request answered by resp' addressed, before and after it
Before == sessions[resp'.session_id]

After == sessions'[resp'.session_id]

\* the exchange add_exchange stores for the request answered by resp'
StoredExchange(reply) ==
    <<[role |-> "user", content |-> resp'.message], [role |-> "assistant", content |-> reply]>>

\* C2 as stated: whenever two consecutive POST /chat requests of a session
\* carry the same message, the second is answered with the duplicate notice
\* and makes no embedding, search or completion call.
C2_Original ==
    [][(/\ resp.op = "chat" /\ resp'.op = "chat"
        /\ resp'.session_id = resp.session_id
        /\ resp'.message = resp.message) =>
            /\ resp'.kind = "duplicate"
            /\ calls' = NoCalls]_vars

\* C2: for a message m that is_greeting rejects, when the first of two
\* consecutive POST /chat requests carrying m stored its exchange (it got a
\* generated answer, or failed after add_exchange had appended the exchange)
\* or was itself answered with the duplicate notice, the second one is
\* answered 200 with the duplicate notice, show_form false, makes no
\* embedding, search or completion call and leaves the session as it was.
C2_DuplicateAfterStoredExchange ==
    [][(/\ resp.op = "chat" /\ resp'.op = "chat"
        /\ resp'.session_id = resp.session_id
        /\ resp'.message = resp.message
        /\ ~GreetingTable[resp'.message]
        /\ \/ resp.kind \in {"answer", "duplicate"}
           \/ resp.kind = "error" /\ resp.detail \in {"summary", "intent", "show_form"}) =>
            /\ resp'.status = 200
            /\ resp'.kind = "duplicate"
            /\ resp'.reply = duplicate_notice
            /\ resp'.show_form = FALSE
            /\ calls' = NoCalls
            /\ sessions' = sessions]_vars

\* the duplicate notice answers a repeat of the message stored last
C2_Witness ==
    /\ resp.op = "chat" /\ resp.kind = "duplicate"
    /\ calls = NoCalls
    /\ LET messages == sessions[resp.session_id].messages
       IN  /\ messages[Len(messages) - 1] = [role |-> "user", content |-> resp.message]
           /\ messages[Len(messages)].role = "assistant"

\* C3: a POST /chat whose search returned zero results is answered 200 with
\* the clarification text for an empty result list, show_form false and no
\* sources, and no answer completion is requested.
C3_ZeroResultsClarification ==
    [][(resp'.op = "chat" /\ calls'.results = 0) =>
            /\ resp'.status = 200
            /\ resp'.kind = "clarification"
            /\ resp'.reply = clarification_no_match
            /\ resp'.show_form = FALSE
            /\ resp'.sources = <<>>
            /\ calls'.answer = 0]_vars

\* a query with a recognised term found nothing, with and without filters
C3_Witness ==
    /\ resp.op = "chat" /\ resp.kind = "clarification"
    /\ calls.results = 0 /\ calls.search = 2
    /\ resp.show_form = FALSE

\* C4 as stated: the POST /chat that makes the tenth exchange of a session
\* and is answered 200 returns show_form true, whatever the message.
C4_Original ==
    [][(/\ ChatOnExisting
        /\ Before.interaction_count = form_after_exchanges - 1
        /\ After.interaction_count = form_after_exchanges
        /\ resp'.status = 200) =>
            resp'.show_form = TRUE]_vars

\* C4: a POST /chat that is answered with a generated answer and leaves the
\* session with an interaction count of 10 or more returns show_form true;
\* greeting, duplicate and clarification replies carry show_form false at
\* any count.
C4_TenthAnswerShowsForm ==
    [][(resp'.op = "chat" /\ resp'.status = 200) =>
            /\ (resp'.kind = "answer" /\ After.interaction_count >= form_after_exchanges) =>
                    resp'.show_form = TRUE
            /\ resp'.kind \in {"welcome", "greeting", "duplicate", "clarification"} =>
                    resp'.show_form = FALSE]_vars

\* the tenth exchange shows the form although nothing else in the session asks for it
C4_Witness ==
    /\ resp.op = "chat" /\ resp.kind = "answer" /\ resp.show_form = TRUE
    /\ sessions[resp.session_id].interaction_count = form_after_exchanges
    /\ ~should_show_form([sessions[resp.session_id] EXCEPT !.interaction_count = @ - 1], DefaultIntent)

\* the stored messages of a session exceed 10 for the first time inside its
\* sixth add_exchange: each exchange adds two and nothing is dropped before
ExceededTen(mem) == mem.interaction_count >= 6

\* C5 as stated: in a session whose stored messages have exceeded 10, every
\* later turn ends with at most 8 stored messages and a non-empty summary.
C5_Original ==
    [][(ChatOnExisting /\ ExceededTen(Before)) =>
            /\ Len(After.messages) <= 8
            /\ After.summary # ""]_vars

\* C5: in a session whose stored messages have exceeded 10, every later
\* turn in which add_exchange runs to completion ends with at most 10 stored
\* messages; when that turn summarized, exactly the 8 most recent messages
\* are kept and the summary is the text the summarization call returned
\* (empty if that text is empty), otherwise the summary is unchanged.
C5_SummarizedHistory ==
    [][(/\ ChatOnExisting /\ ExceededTen(Before)
        /\ After.interaction_count = Before.interaction_count + 1
        /\ resp'.detail # "summary") =>
            /\ Len(After.messages) <= 10
            /\ Len(Before.messages) + 2 > 10 <=> calls'.summary = 1
            /\ calls'.summary = 1 =>
                    /\ Len(After.messages) = 8
                    /\ SubSeq(After.messages, 1, 6) = LastN(Before.messages, 6)
                    /\ After.messages[7].content = resp'.message
                    /\ After.summary = calls'.summary_reply
            /\ calls'.summary = 0 =>
                    /\ Len(After.messages) = Len(Before.messages) + 2
                    /\ After.summary = Before.summary]_vars

\* a second summarization has cut the history back to 8 messages
C5_Witness ==
    /\ resp.op = "chat" /\ resp.status = 200
    /\ calls.summary = 1
    /\ sessions[resp.session_id].interaction_count >= 8
    /\ Len(sessions[resp.session_id].messages) = 8
    /\ sessions[resp.session_id].summary = "Summary of the talk"

IntentSamples ==
    {DefaultIntent, SalesIntent, [product_interest |-> 0, contact_request |-> 0],
     [product_interest |-> 100, contact_request |-> 100]}

\* the memory with other histories in place of its own
HistorySamples(mem) ==
    {mem,
     [mem EXCEPT !.messages = <<>>],
     [mem EXCEPT !.sentiment_history = <<>>],
     [mem EXCEPT !.topics_discussed = <<"KYC">>, !.sentiment_history = <<DefaultSentiment>>],
     [mem EXCEPT !.messages = <<>>, !.sentiment_history = <<>>, !.topics_discussed = <<>>,
                 !.summary = ""]}

\* C6: in every state where a session's interaction_count is 10 or more,
\* should_show_form returns true (and does not raise) for every intent score
\* and every history; and while the session stays in the store its
\* interaction_count never falls below 10 again.
C6_LeadTriggerMonotonic ==
    /\ [](\A sid \in DOMAIN sessions :
            sessions[sid].interaction_count >= form_after_exchanges =>
                \A intent_scores \in IntentSamples, mem \in HistorySamples(sessions[sid]) :
                    /\ should_show_form(mem, intent_scores) = TRUE
                    /\ ~should_show_form_raises(mem, intent_scores))
    /\ [][\A sid \in DOMAIN sessions \cap DOMAIN sessions' :
            sessions[sid].interaction_count >= form_after_exchanges =>
                sessions'[sid].interaction_count >= form_after_exchanges]_vars

\* a session at count 10 was just sent a repeated message, which no other
\* rule of should_show_form would answer with true
C6_Witness ==
    /\ resp.op = "chat" /\ resp.kind = "duplicate"
    /\ sessions[resp.session_id].interaction_count >= form_after_exchanges
    /\ ~should_show_form([sessions[resp.session_id] EXCEPT !.interaction_count = 9], DefaultIntent)

\* C7: DELETE /sessions/{id} removes exactly that session when the store holds
\* it and answers 404 leaving the store as it was when it does not; right
\* after a successful clear the id is unknown, so a second DELETE of it
\* answers 404 and the next POST /chat with it gets the welcome message and
\* an empty history.
C7_ClearSession ==
    /\ [](resp.op = "delete" /\ resp.status = 200 => resp.session_id \notin DOMAIN sessions)
    /\ [][/\ resp'.op = "delete" =>
                IF resp'.session_id \in DOMAIN sessions
                THEN resp'.status = 200 /\ sessions' = Without(sessions, resp'.session_id)
                ELSE resp'.status = 404 /\ sessions' = sessions
          /\ (resp.op = "delete" /\ resp.status = 200 /\ resp'.session_id = resp.session_id) =>
                /\ resp'.op = "delete" => resp'.status = 404
                /\ resp'.op = "chat" =>
                      /\ resp'.kind = "welcome"
                      /\ sessions'[resp'.session_id].messages = <<>>]_vars

\* a session that held an exchange was cleared while another one stays
C7_Witness ==
    /\ resp.op = "delete" /\ resp.status = 200
    /\ resp.session_id \notin DOMAIN sessions
    /\ \E s \in DOMAIN sessions : sessions[s].interaction_count > 0
AllAnalyses == Inputs.analyses \cup TurnInputs.analyses \cup LongInputs.analyses \cup GreetInputs.analyses

\* what a turn that ended in a 500 leaves behind: nothing is called twice
\* (the search at most once plain and once filtered), the session stays in
\* the store, and every update made before the raising call is still there
FailedTurnEffects ==
    /\ resp'.kind = "error"
    /\ calls'.embedding <= 1 /\ calls'.search <= 2 /\ calls'.answer <= 1 /\ calls'.summary <= 1
    /\ DOMAIN sessions' = DOMAIN sessions
    /\ \A s \in DOMAIN sessions \ {resp'.session_id} : sessions'[s] = sessions[s]
    /\ (calls'.other > 0 /\ calls'.caught = 0 /\ Before.interaction_count > 1) =>
            \E analysis \in {a \in AllAnalyses : a.ok} :
                After.financial_context = update_financial_context(Before, analysis).financial_context
    /\ resp'.detail \in RetrievalCalls =>
            After = [Before EXCEPT !.financial_context = After.financial_context]
    /\ resp'.detail \in AnswerCalls =>
            /\ After = [Before EXCEPT !.financial_context = After.financial_context,
                                      !.last_sources = After.last_sources]
            /\ Len(After.last_sources) = calls'.results
    /\ resp'.detail = "summary" =>
            /\ calls'.summary = 1
            /\ After.interaction_count = Before.interaction_count + 1
            /\ Len(After.messages) = Len(Before.messages) + 2
            /\ SubSeq(After.messages, 1, Len(Before.messages)) = Before.messages
            /\ After.messages[Len(After.messages) - 1] = [role |-> "user", content |-> resp'.message]
            /\ Len(After.sentiment_history) = Len(Before.sentiment_history) + 1
            /\ After.summary = Before.summary
    /\ resp'.detail \in {"intent", "show_form"} =>
            /\ After.interaction_count = Before.interaction_count + 1
            /\ After.messages[Len(After.messages) - 1] = [role |-> "user", content |-> resp'.message]

\* C8 as stated: every exception raised while a POST /chat turn is processed,
\* the one update_financial_context catches included, ends the turn with a
\* 500, without a retry and without undoing the updates already made.
C8_Original ==
    [][(resp'.op = "chat" /\ (resp'.kind = "error" \/ calls'.caught > 0)) =>
            /\ resp'.status = 500
            /\ FailedTurnEffects]_vars

\* C8: every exception that reaches the boundary of the chat handler ends
\* the turn with a 500, no call is repeated, and the updates made before it
\* (financial-context update, last_sources, the messages appended and the
\* counter incremented by add_exchange) stay; an exception raised by the
\* analysis call of update_financial_context is caught there instead: the
\* financial context is left as it was and the turn goes on.
C8_FailedTurnKeepsUpdates ==
    [][resp'.op = "chat" =>
            /\ resp'.kind = "error" <=> resp'.status = 500
            /\ resp'.kind = "error" => FailedTurnEffects
            /\ calls'.caught > 0 =>
                    /\ calls'.caught = 1
                    /\ calls'.other >= 2
                    /\ After.financial_context = Before.financial_context]_vars

\* the summarization call raised: the 500 leaves twelve messages, the
\* incremented counter and the updated financial context in the session
C8_Witness ==
    /\ resp.op = "chat" /\ resp.status = 500 /\ resp.detail = "summary"
    /\ Len(sessions[resp.session_id].messages) = 12
    /\ sessions[resp.session_id].interaction_count = 6
    /\ sessions[resp.session_id].financial_context.industry_vertical = "banking"

\* the greeting pattern without the stripping is_greeting does: the lowered
\* message is a listed greeting, or starts with a listed greeting followed
\* by a space
GreetingPattern(message) ==
    LET lowered == Lower(message)
    IN  \/ lowered \in greetings
        \/ \E g \in greetings : StartsWith(lowered, g \o " ")

GreetingPatternTable == Tabulated([m \in AllMessages |-> GreetingPattern(m)])

\* the replies generate_greeting_response can give for a history
CannedGreetings(mem) ==
    IF mem.messages = <<>> THEN {generate_welcome_message} ELSE greeting_templates

\* C9 as stated: in an existing session every message matching the greeting
\* pattern is answered with a canned greeting, the exchange is appended, and
\* no embedding, search or answer call is made.
C9_Original ==
    [][(ChatOnExisting /\ GreetingPatternTable[resp'.message]) =>
            /\ resp'.status = 200
            /\ resp'.reply \in CannedGreetings(Before)
            /\ After.interaction_count = Before.interaction_count + 1
            /\ After.messages[Len(After.messages) - 1] = [role |-> "user", content |-> resp'.message]
            /\ After.messages[Len(After.messages)] = [role |-> "assistant", content |-> resp'.reply]
            /\ calls'.embedding = 0 /\ calls'.search = 0 /\ calls'.answer = 0]_vars

\* C9: in an existing session every message matching the greeting pattern
\* is handled by the greeting path, with no embedding, search or
\* answer-completion call.  The reply is the welcome message when the
\* history is empty and one of the four templates otherwise; the exchange is
\* appended (counter incremented, sentiment 0.8/0/0.2 recorded) only when
\* the history is empty or its last message differs from the reply, and is
\* otherwise dropped with the session unchanged; when appending makes the
\* history longer than 10 the summarization call is made, and if that call
\* raises the turn ends in a 500 with the exchange still appended.
C9_GreetingPath ==
    [][(ChatOnExisting /\ GreetingPatternTable[resp'.message]) =>
            /\ calls'.embedding = 0 /\ calls'.search = 0 /\ calls'.answer = 0 /\ calls'.other = 0
            /\ resp'.show_form = FALSE /\ resp'.sources = <<>>
            /\ IF resp'.status = 200
               THEN /\ resp'.kind = "greeting"
                    /\ resp'.reply \in CannedGreetings(Before)
                    /\ IF Before.messages = <<>>
                          \/ Before.messages[Len(Before.messages)].content # resp'.reply
                       THEN /\ After.interaction_count = Before.interaction_count + 1
                            /\ After.messages =
                                   IF calls'.summary = 1
                                   THEN LastN(Before.messages \o StoredExchange(resp'.reply), 8)
                                   ELSE Before.messages \o StoredExchange(resp'.reply)
                            /\ After.sentiment_history = Append(Before.sentiment_history, GreetingSentiment)
                            /\ calls'.summary = 1 <=> Len(Before.messages) + 2 > 10
                       ELSE sessions' = sessions /\ calls' = NoCalls
               ELSE /\ resp'.status = 500 /\ resp'.detail = "summary"
                    /\ calls'.summary = 1
                    /\ Len(Before.messages) + 2 > 10
                    /\ After.interaction_count = Before.interaction_count + 1
                    /\ \E reply \in CannedGreetings(Before) :
                            After.messages = Before.messages \o StoredExchange(reply)]_vars

\* a prefix-matching greeting in mixed case was appended and summarized
C9_Witness ==
    /\ resp.op = "chat" /\ resp.kind = "greeting"
    /\ resp.message = "hello there"
    /\ resp.reply \in greeting_templates
    /\ calls.summary = 1
    /\ Len(sessions[resp.session_id].messages) = 8
    /\ sessions[resp.session_id].messages[7].content = "hello there"
    /\ \E i \in 1..6 : sessions[resp.session_id].messages[i].content = "Hello"

\* C10: a POST /chat answered with the clarification reply leaves the
\* session's interaction_count, messages, sentiment_history and
\* topics_discussed (and its summary and last_sources) as they were.
C10_ClarificationKeepsHeuristic ==
    [][(resp'.op = "chat" /\ resp'.kind = "clarification") =>
            /\ After.interaction_count = Before.interaction_count
            /\ After.messages = Before.messages
            /\ After.sentiment_history = Before.sentiment_history
            /\ After.topics_discussed = Before.topics_discussed
            /\ After.summary = Before.summary
            /\ After.last_sources = Before.last_sources
            /\ resp'.show_form = FALSE]_vars

\* a clarification over one weak result in a session whose financial context
\* the same turn updated
C10_Witness ==
    /\ resp.op = "chat" /\ resp.kind = "clarification"
    /\ Len(resp.sources) = 1
    /\ calls.other = 2 /\ calls.caught = 0
    /\ sessions[resp.session_id].interaction_count = 2
    /\ sessions[resp.session_id].financial_context.industry_vertical = "banking"

Ids(results) == {results[i].id : i \in 1..Len(results)}

C12_FormTrigger ==
    (out.op = "should_show_form" /\ out.returned) =>
        LET mem == out.mem
            recent == LastN(mem.sentiment_history, 3)
        IN  out.result <=>
                \/ mem.interaction_count >= 10
                \/ out.intent_scores.product_interest > 60
                \/ out.intent_scores.contact_request > 50
                \/ /\ has_high_value_topic(mem)
                   /\ mem.interaction_count >= 3
                   /\ SumPositive(recent) > 65 * Len(recent)
                \/ has_lead_keyword(mem)

\* the form shown on the sentiment rule alone, the intent scores being at
\* their thresholds
C12_Witness ==
    /\ out.op = "should_show_form" /\ out.returned /\ out.result
    /\ out.mem.interaction_count \in 3..9
    /\ out.intent_scores = [product_interest |-> 60, contact_request |-> 50]
    /\ ~has_lead_keyword(out.mem)
    /\ has_high_value_topic(out.mem)

\* the step is an embeddings.create that raised, the n-th for its chunk
EmbeddingFailed(n) ==
    /\ ingest # NoIngest /\ ingest.status = "embed"
    /\ ingest'.event.cause = "embedding"
    /\ n = ingest.retry_count + 1

SameChunkAgain ==
    /\ ingest'.status = "embed"
    /\ ingest'.page = ingest.page /\ ingest'.idx = ingest.idx
    /\ ingest'.points = ingest.points

\* the chunk is given up and the loop is at the next chunk of the document,
\* or past the document after its last chunk
OnlyChunkSkipped ==
    /\ ingest'.status \in {"embed", "fetch", "upsert"}
    /\ ingest'.points = ingest.points
    /\ ingest'.slept = ingest.slept
    /\ IF ingest.idx + 1 < ingest.nchunks
       THEN ingest'.status = "embed" /\ ingest'.page = ingest.page /\ ingest'.idx = ingest.idx + 1
       ELSE ingest'.page > ingest.page

\* C13 as stated: in every ingestion script a failed embedding request is
\* retried up to 3 times, the script waiting 2^n seconds after the n-th
\* failure, and when the error propagates the script skips that chunk only
\* and goes on with the next one.
C13_Original ==
    [][\A n \in 1..4 : EmbeddingFailed(n) =>
            IF n <= 3 THEN SameChunkAgain /\ ingest'.slept = Append(ingest.slept, 2 ^ n)
            ELSE OnlyChunkSkipped]_vars

\* C13: in ingest.py an embedding request is made at most 3 times per chunk;
\* after the n-th failure, n < 3, the script sleeps 2^n seconds and tries the
\* same chunk again; the third failure propagates without a sleep, the
\* chunk is skipped and the loop goes on with the next chunk.  The sitemap
\* scripts make one attempt: a failure abandons the rest of the page and the
\* loop goes on with the next page.  ingest_json.py makes one attempt: a
\* failure ends the script before anything was upserted.
C13_RetryThenSkip ==
    [][\A n \in 1..4 : EmbeddingFailed(n) =>
            CASE ingest.pipeline = "ingest" ->
                    /\ n <= 3
                    /\ IF n < 3
                       THEN SameChunkAgain /\ ingest'.slept = Append(ingest.slept, 2 ^ n)
                       ELSE OnlyChunkSkipped
              [] ingest.pipeline = "ingest_sitemap" ->
                    /\ n = 1
                    /\ ingest'.status \in {"fetch", "upsert"}
                    /\ ingest'.page = ingest.page + 1
                    /\ ingest'.points = ingest.points
                    /\ ingest'.slept = ingest.slept
              [] ingest.pipeline = "ingest_json" ->
                    /\ n = 1
                    /\ ingest'.status = "crashed"
                    /\ ingest'.collection = ingest.collection]_vars

\* ingest.py has given up the first chunk of a page after sleeping 2 and 4
\* seconds and is at the second chunk
C13_Witness ==
    /\ ingest # NoIngest /\ ingest.pipeline = "ingest"
    /\ ingest.event.kind = "chunk_skipped" /\ ingest.event.idx = 0
    /\ ingest.slept = <<2, 4>>
    /\ ingest.status = "embed" /\ ingest.idx = 1 /\ ingest.page = ingest.event.page

DeterministicIds == ingest # NoIngest /\ ingest.pipeline \in {"ingest_json", "ingest_sitemap"}

\* C14 as stated: for ingest_json.py and the sitemap scripts, the number of
\* points in the collection after the second completed run over the same
\* site equals the number after the first completed run.
C14_Original ==
    DeterministicIds =>
        \A r \in 2..Len(ingest.counts) : ingest.counts[r] = ingest.counts[r - 1]

\* C14: for ingest_json.py and the sitemap scripts, the collection holds
\* after every completed run one point per chunk that this or an earlier run embedded
\* and upserted; so a run over the same site leaves the number of points
\* as the run before left it whenever it embeds no chunk that no earlier
\* run had embedded.
C14_NoGrowthForSameChunks ==
    DeterministicIds =>
        \A r \in 1..Len(ingest.counts) :
            /\ ingest.counts[r] = Cardinality(UNION {ingest.embedded[q] : q \in 1..r})
            /\ (r > 1 /\ ingest.embedded[r] \subseteq UNION {ingest.embedded[q] : q \in 1..r - 1})
                    => ingest.counts[r] = ingest.counts[r - 1]

\* the sitemap script has run twice, embedding the same three chunks each time
C14_Witness ==
    /\ ingest # NoIngest /\ ingest.pipeline = "ingest_sitemap"
    /\ ingest.status = "done" /\ ingest.run = 2
    /\ Len(ingest.embedded) = 2
    /\ ingest.embedded[1] = {<<1, 0>>, <<1, 1>>, <<3, 0>>}
    /\ ingest.embedded[2] = ingest.embedded[1]
    /\ ingest.counts = <<3, 3>>

\* the step is the fetch of the page at hand; a failed request leaves its
\* kind as the cause of the event
FetchStep == ingest # NoIngest /\ ingest.status = "fetch" /\ ingest' # ingest

FetchFailed == ingest'.event.cause \in {"network_error", "bad_status"}

NoContainer == ~FetchFailed /\ ~Site[ingest.page].container

\* the page gave no document and the loop is at the next page
NoDocumentGoOn ==
    /\ ingest'.event.kind = "no_document"
    /\ ingest'.status \in {"fetch", "upsert"}
    /\ ingest'.page = ingest.page + 1
    /\ ingest'.points = ingest.points

Concatenated(chunks) == Join("", [k \in 1..Len(chunks) |-> chunks[k].text])

RECURSIVE WithoutWhitespace(_)
WithoutWhitespace(s) ==
    IF s = "" THEN ""
    ELSE IF CharAt(s, 1) \in Whitespace THEN WithoutWhitespace(SubSeq(s, 2, Len(s)))
    ELSE CharAt(s, 1) \o WithoutWhitespace(SubSeq(s, 2, Len(s)))

\* C15 as stated: every chunk that create_chunks or chunk_text returns has a
\* token count of at most the maximum of its script.
C15_Original ==
    out.op \in {"create_chunks", "chunk_text"} /\ out.returned =>
        \A k \in 1..Len(out.chunks) : out.chunks[k].token_count <= out.max_tokens

\* C15: every chunk that chunk_text returns, and every chunk of
\* create_chunks that main goes on to embed, has a token count of at most
\* the maximum of its script; create_chunks itself may return longer chunks.
C15_EmbeddedWithinLimit ==
    out.op \in {"create_chunks", "chunk_text"} /\ out.returned =>
        /\ \A k \in 1..Len(out.embedded) : out.embedded[k].token_count <= out.max_tokens
        /\ out.op = "chunk_text" =>
                /\ out.embedded = out.chunks
                /\ \A k \in 1..Len(out.chunks) : count_tokens(out.chunks[k].text) <= out.max_tokens

\* create_chunks returned a chunk above the limit, which main skips, and
\* another one, which main embeds
C15_Witness ==
    /\ out.op = "create_chunks" /\ out.returned
    /\ \E k \in 1..Len(out.chunks) : out.chunks[k].token_count > out.max_tokens
    /\ out.embedded # <<>>
    /\ Len(out.embedded) < Len(out.chunks)

C17_EmptyInput ==
    (out.op \in {"create_chunks", "chunk_text"} /\ out.returned /\ out.text = "") =>
        out.chunks = <<>>

\* the step is a POST /chat that reached the sentiment and the intent call
ClassifiedTurn == resp'.op = "chat" /\ calls'.answer = 1 /\ out'.op = "classifiers"

\* C19: when the reply of the sentiment completion is not parseable JSON,
\* the sentiment stored with the exchange is 0.33/0.33/0.34; when the reply
\* of the intent completion is not parseable JSON, show_form is decided on
\* the default intent scores; in both cases the turn is answered 200 with
\* the generated answer.
C19_UnparseableReplyDefaults ==
    [][ClassifiedTurn =>
            /\ out'.sentiment_reply = Unparseable =>
                    /\ resp'.status = 200 /\ resp'.kind = "answer"
                    /\ After.interaction_count = Before.interaction_count + 1
                    /\ After.sentiment_history[Len(After.sentiment_history)] =
                            [positive |-> 33, negative |-> 33, neutral |-> 34]
            /\ out'.intent_reply = Unparseable =>
                    /\ resp'.status = 200 /\ resp'.kind = "answer"
                    /\ resp'.show_form = should_show_form(After, [product_interest |-> 25, contact_request |-> 25])]_vars

\* an exchange answered 200 without the form although neither reply could
\* be parsed
C19_Witness ==
    /\ resp.op = "chat" /\ resp.status = 200 /\ resp.kind = "answer" /\ ~resp.show_form
    /\ out.op = "classifiers" /\ out.sentiment_reply = Unparseable /\ out.intent_reply = Unparseable
    /\ sessions[resp.session_id].interaction_count = 1
    /\ sessions[resp.session_id].sentiment_history = <<DefaultSentiment>>

\* C20: POST /lead with a valid body is answered 200 with status "ok",
\* whether the notification returned True, returned False, raised, or no
\* module with send_lead_notification could be imported; every outcome but
\* True is logged as a warning, and the sessions are left as they were.
C20_LeadAlwaysOk ==
    [][resp'.op = "lead" =>
            /\ resp'.status = 200 /\ resp'.kind = "ok"
            /\ StartsWith(resp'.reply, "Thank you!")
            /\ out'.op = "lead_notification"
            /\ out'.outcome \in {"true", "false", "raised", "none"}
            /\ out'.warned <=> out'.outcome # "true"
            /\ sessions' = sessions]_vars

\* a lead answered "ok" whose notification, written from the session that
\* holds the address, raised
C20_Witness ==
    /\ resp.op = "lead" /\ resp.status = 200 /\ resp.kind = "ok"
    /\ out.op = "lead_notification" /\ out.module = "email_service" /\ out.outcome = "raised"
    /\ out.warned
    /\ out.email_content.contextual /\ out.email_content.exchanges = 2

C22_BatchBound ==
    ingest # NoIngest =>
        \A k \in 1..Len(ingest.upserts) : Len(ingest.upserts[k].points) <= ingest.batch

\* number of upsert calls that returned and carried the point
Uploads(id) ==
    Cardinality({ki \in (1..Len(ingest.upserts)) \X (1..ingest.total_chunks) :
                    /\ ingest.upserts[ki[1]].ok
                    /\ ki[2] <= Len(ingest.upserts[ki[1]].points)
                    /\ ingest.upserts[ki[1]].points[ki[2]].id = id})

\* C30: when a run of ingest.py reaches its end, every point built from an
\* embedded chunk was carried by exactly one upsert call that returned,
\* batch upserts that raised on the way included, and total_uploads equals
\* total_chunks.
C30_EveryPointUploadedOnce ==
    (ingest # NoIngest /\ ingest.pipeline = "ingest" /\ ingest.status = "done") =>
        /\ ingest.total_uploads = ingest.total_chunks
        /\ \A n \in (ingest.uuid4s - ingest.total_chunks + 1)..ingest.uuid4s : Uploads(<<"uuid4", n>>) = 1

\* a run of ingest.py that ended after a batch upsert raised and a later
\* upsert carried the points of that batch
C30_Witness ==
    /\ ingest # NoIngest /\ ingest.pipeline = "ingest" /\ ingest.status = "done"
    /\ ingest.total_chunks >= 3 /\ ingest.total_uploads = ingest.total_chunks
    /\ \E k \in 1..Len(ingest.upserts), j \in 1..Len(ingest.upserts) :
            /\ k < j /\ ~ingest.upserts[k].ok /\ ingest.upserts[j].ok
            /\ ingest.upserts[k].points[1] = ingest.upserts[j].points[1]

\* C23: no topic occurs more than once in the topics_discussed of a
\* session, whatever lists extract_topics returned.
C23_TopicsAreSet ==
    \A sid \in DOMAIN sessions :
        \A i \in 1..Len(sessions[sid].topics_discussed), j \in 1..Len(sessions[sid].topics_discussed) :
            sessions[sid].topics_discussed[i] = sessions[sid].topics_discussed[j] => i = j

\* C24: in every session the stored message list has even length and its
\* roles alternate user, assistant, user, ... starting with a user message,
\* so the second-to-last stored message is a user message; this holds after
\* a summarization has truncated the list and after a turn that failed.
C24_MessagesAlternate ==
    \A sid \in DOMAIN sessions :
        LET messages == sessions[sid].messages
        IN  /\ Len(messages) % 2 = 0
            /\ \A i \in 1..Len(messages) :
                    messages[i].role = IF i % 2 = 1 THEN "user" ELSE "assistant"
            /\ Len(messages) >= 2 => messages[Len(messages) - 1].role = "user"

\* a turn failed on a session whose list a summarization had truncated to
\* eight messages and that has grown again since
C24_Witness ==
    /\ resp.op = "chat" /\ resp.kind = "error"
    /\ resp.session_id \in DOMAIN sessions
    /\ sessions[resp.session_id].summary = "Summary of the talk"
    /\ Len(sessions[resp.session_id].messages) = 10

\* C25: in every session sentiment_history has exactly interaction_count
\* entries, and a POST /chat request on a session leaves its
\* interaction_count unchanged or raises it by one.
C25_CountMatchesSentiments ==
    [][/\ \A sid \in DOMAIN sessions' :
            Len(sessions'[sid].sentiment_history) = sessions'[sid].interaction_count
       /\ \A sid \in DOMAIN sessions \cap DOMAIN sessions' :
            sessions'[sid].interaction_count >= sessions[sid].interaction_count
       /\ ChatOnExisting =>
            After.interaction_count \in {Before.interaction_count, Before.interaction_count + 1}]_vars

\* the turn whose summarization call failed has been counted, and the
\* sentiment of that turn is in the history
C25_Witness ==
    /\ resp.op = "chat" /\ resp.kind = "error" /\ resp.detail = "summary"
    /\ resp.session_id \in DOMAIN sessions
    /\ sessions[resp.session_id].interaction_count = 6
    /\ Len(sessions[resp.session_id].sentiment_history) = 6

\* C26: a POST /chat response carries show_form = true only when the request
\* was processed to the end (the index was searched, and add_exchange stored
\* the exchange of this request); the welcome of a new session, a greeting,
\* the duplicate notice and a clarification carry show_form = false whatever
\* the interaction count of the session.
C26_FormOnlyAfterFullTurn ==
    [][resp'.op = "chat" =>
        /\ resp'.show_form =>
                /\ resp'.kind = "answer"
                /\ calls'.embedding = 1 /\ calls'.search >= 1
                /\ ChatOnExisting
                /\ After.interaction_count = Before.interaction_count + 1
                /\ After.messages[Len(After.messages) - 1] = [role |-> "user", content |-> resp'.message]
                /\ After.messages[Len(After.messages)] = [role |-> "assistant", content |-> resp'.reply]
        /\ resp'.kind \in {"welcome", "greeting", "duplicate", "clarification"} => ~resp'.show_form]_vars

\* the duplicate notice on a session that has reached the interaction count
\* at which an answered turn shows the form
C26_Witness ==
    /\ resp.op = "chat" /\ resp.kind = "duplicate" /\ ~resp.show_form
    /\ resp.session_id \in DOMAIN sessions
    /\ sessions[resp.session_id].interaction_count >= form_after_exchanges

\* C27: a turn answered with the duplicate notice leaves every field of the
\* session unchanged, so the same message sent again meets the same test and
\* gets the duplicate notice again.
C27_DuplicateLeavesSession ==
    [][(resp'.op = "chat" /\ resp'.kind = "duplicate") =>
        /\ sessions' = sessions
        /\ resp'.session_id \in DOMAIN sessions'
        /\ ~GreetingTable[resp'.message]
        /\ is_duplicate(After, resp'.message)
        /\ resp'.reply = duplicate_notice]_vars

\* the duplicate notice on a session with a summary, topics, sentiments and
\* sources of earlier turns
C27_Witness ==
    /\ resp.op = "chat" /\ resp.kind = "duplicate"
    /\ resp.session_id \in DOMAIN sessions
    /\ LET memory == sessions[resp.session_id]
       IN  /\ memory.summary # ""
           /\ memory.topics_discussed # <<>>
           /\ memory.sentiment_history # <<>>
           /\ memory.last_sources # <<>>

\* C28: every result of the initial unfiltered search of
\* enhanced_financial_search is in the list it returns, also when the
\* results of the filtered re-search were merged in: a filtered result takes
\* a place the initial results left free and never the place of one of them.
C28_InitialResultsKept ==
    out.op = "enhanced_financial_search" =>
        /\ Ids(out.search_results) \subseteq Ids(out.results)
        /\ \A i \in 1..Len(out.search_results) :
                \E j \in 1..Len(out.results) : out.results[j] = out.search_results[i]
        /\ Len(out.search_results) = out.limit => out.results = out.search_results

\* the initial search filled every place, the filtered re-search brought a
\* new point with the score of the last initial result, and the list
\* returned is the initial one
C28_Witness ==
    /\ out.op = "enhanced_financial_search" /\ out.filtered
    /\ Len(out.search_results) = out.limit
    /\ \E i \in 1..Len(out.filtered_results) :
            /\ out.filtered_results[i].id \notin Ids(out.search_results)
            /\ out.filtered_results[i].score = out.search_results[out.limit].score
    /\ out.results = out.search_results

\* C29: should_show_form never divides by zero: no request fails in it, and
\* in every session with a high-value topic among the discussed topics and
\* an interaction count of at least 3, the slice of the recent sentiments
\* that the average is taken over is not empty.
C29_SentimentSliceNonEmpty ==
    /\ ~(resp.op = "chat" /\ resp.kind = "error" /\ resp.detail = "show_form")
    /\ \A sid \in DOMAIN sessions :
            (has_high_value_topic(sessions[sid]) /\ sessions[sid].interaction_count >= 3) =>
                LastN(sessions[sid].sentiment_history, 3) # <<>>

\* the third turn of a session about KYC is answered with the form although
\* the count is below ten, the intent scores are low and no lead keyword is
\* among the recent messages: the average of the sentiments decided
C29_Witness ==
    /\ resp.op = "chat" /\ resp.kind = "answer" /\ resp.show_form
    /\ resp.session_id \in DOMAIN sessions
    /\ out.op = "classifiers" /\ out.intent_reply.json
    /\ out.intent_reply.value.product_interest = 10
    /\ LET memory == sessions[resp.session_id]
       IN  /\ memory.interaction_count = 3
           /\ has_high_value_topic(memory)
           /\ ~has_lead_keyword(memory)
====
